---- MODULE Spec2Model ----
(***************************************************************************)
(* Large object transfer (amazon-freertos, BLE services).                  *)
(*                                                                         *)
(* The repository holds three revisions of aws_iot_large_object_transfer.c *)
(*   - part_001 : context based, windowed sender (suffix _p1 where a name  *)
(*                clashes),                                                *)
(*   - lib/.../aws_iot_large_object_transfer.c : handle based Send that    *)
(*                emits START (suffix _lib),                               *)
(*   - part_000 : older handle based Send (suffix _p0).                    *)
(* Each revision is modelled from its own source text.                     *)
(***************************************************************************)
EXTENDS Integers, Sequences, FiniteSets, TLC

(***************************************************************************)
(* Bounds of the model.                                                    *)
(***************************************************************************)
MaxWindowSize == 2
MaxMTU == 7
MaxObjectLength == 3
MaxRetransmissions == 1
MaxTimers == 1
MaxHandleTimers == 2
MaxSessionId == 2
MaxRxBlocks == 2
\* Datagrams for a send session are taken up while its xOffset is below this.
MaxOffset == 8
\* Heap room for send-session objects of the handle based revisions.
MaxObjects == 2
\* The handle based Send is taken while the UUID counter is below this.
MaxUUID == 6

(***************************************************************************)
(* Program constants.                                                      *)
(***************************************************************************)
MAX_LARGE_OBJECT_SEND_SESSIONS == 1
MAX_LARGE_OBJECT_RECV_SESSIONS == 1
\* size_t arithmetic is modular; the model takes the narrowest size_t C allows.
SIZE_MODULUS == 65536
\* uint16_t arithmetic (ulBlockNum, usUUID).
UINT16_MODULUS == 65536
BLOCK_HEADER_LEN == 5
ACK_HEADER_LEN == 3

SUCCESS == "SUCCESS"
NO_MEMORY == "NO_MEMORY"
NETWORK_ERROR == "NETWORK_ERROR"
INTERNAL_ERROR == "INTERNAL_ERROR"
INVALID_PACKET == "INVALID_PACKET"
INVALID_PARAM == "INVALID_PARAM"
MAX_SESSIONS_REACHED == "MAX_SESSIONS_REACHED"
\* lib spells the codes above eAwsIotLargeObjectTransfer<Name>.
SESSION_FOUND == "SessionFound"
SESSION_IN_PROGRESS == "SESSION_IN_PROGRESS"

eInit == "Init"
eInProgress == "InProgress"
eFailed == "Failed"
eComplete == "Complete"
\* eAwsIotLargeObjectTransferDataSend: named by Resume, assigned nowhere.
eDataSend == "DataSend"

NULL == 0

WindowSizes == {1, MaxWindowSize}
MTUs == {MaxMTU}
Retransmissions == {0, MaxRetransmissions}
ObjectLengths == 1..MaxObjectLength
SendSlots == 0..(MAX_LARGE_OBJECT_SEND_SESSIONS - 1)
RecvSlots == 0..(MAX_LARGE_OBJECT_RECV_SESSIONS - 1)
TimerIds == 1..MaxTimers
HandleTimerIds == 1..MaxHandleTimers
ObjIds == 1..MaxObjects
\* A non-NULL pointer value that points at no send-session object.
WildPointer == MaxObjects + 1
FreeObject == [used |-> FALSE, usUUID |-> 0, xAckReceivedTimer |-> NULL]

(***************************************************************************)
(* Fault injection: at most one environment fault per operation.           *)
(*   nomem       : the allocator returns NULL for the at-th block          *)
(*   partial     : the link reports fewer bytes than handed to it          *)
(*   timerCreate : xTimerCreate returns NULL                               *)
(*   timerStart  : xTimerStart returns pdFAIL                              *)
(*   timerStop   : xTimerStop returns pdFAIL                               *)
(***************************************************************************)
NoFault == [at |-> 0, kind |-> "none"]
Faults ==
    {NoFault}
    \cup {[at |-> i, kind |-> k] : i \in {1, MaxWindowSize}, k \in {"nomem", "partial"}}
    \cup {[at |-> 0, kind |-> k] : k \in {"timerCreate", "timerStart", "timerStop"}}

\* What a build does when it runs into undefined behaviour: the task faults
\* (halted) or carries on with the values the model computes.
UBOutcomes(ub) == IF ub THEN {TRUE, FALSE} ELSE {FALSE}

\* The faults an operation that sends blocks and starts a timer can meet.
SendFaults == {f \in Faults : f.kind \in {"none", "nomem", "partial", "timerStart"}}
\* ... that also creates a timer, that stops one, that only creates one.
CreateFaults == {f \in Faults : f.kind # "timerStop"}
AckFaults == {f \in Faults : f.kind # "timerCreate"}
RecvFaults == {f \in Faults : f.kind \in {"none", "timerCreate"}}

(***************************************************************************)
(* Macros of part_001.                                                     *)
(***************************************************************************)
NUM_BLOCKS_PER_WINDOW(windowSize) == 2 * windowSize

INCR_WINDOW_NoWrap(blockno, windowSize) == blockno + windowSize

\* _INCR_WINDOW; a zero window size divides by zero (flagged by the caller).
INCR_WINDOW(blockno, windowSize) ==
    IF windowSize = 0 THEN blockno
    ELSE (blockno + windowSize) % NUM_BLOCKS_PER_WINDOW(windowSize)

INCR_OFFSET_OneWindow(offset, windowSize, blockSize) ==
    (offset + windowSize * blockSize) % SIZE_MODULUS

INCR_OFFSET(offset, windowSize, blockSize) ==
    (offset + NUM_BLOCKS_PER_WINDOW(windowSize) * blockSize) % SIZE_MODULUS

BITS_TO_BYTES(numBits) == (numBits + 7) \div 8

\* _BITMAP_SIZE uses _BLOCK_NUMBER_MAX( windowSize ) == 2 * windowSize.
BITMAP_SIZE(windowSize) == BITS_TO_BYTES(2 * windowSize)

MAX_BLOCK_DATA_LEN(usMTU) == (usMTU - 5) % UINT16_MODULUS

BLOCK_LEN(xDataLen) == (xDataLen + BLOCK_HEADER_LEN) % SIZE_MODULUS

BITMAP_LEN(xACKLen) == (xACKLen - ACK_HEADER_LEN) % UINT16_MODULUS

ACK_LENGTH(xBitMapLen) == (xBitMapLen + ACK_HEADER_LEN) % SIZE_MODULUS

SESSION_FREE(xState) == (xState = eInit) \/ (xState = eComplete)

\* size_t subtraction.
SizeSub(a, b) == (a - b) % SIZE_MODULUS

\* No allocator hands out a block of half the address space or more.
AllocFails(xLength, injected) == injected \/ xLength >= SIZE_MODULUS \div 2

VARIABLES
    xParameters,    \* pxContext->xParameters
    sendSessions,   \* pxContext->pxSendSessions
    recvSessions,   \* pxContext->pxRecvSessions
    timers,         \* the timer service: state and owner of every timer
    emitted,        \* datagrams handed to the link by the last operation
    delivered,      \* application block callbacks made so far
    lastOp,         \* the last operation and what it returned
    halted,         \* the task has faulted
    history,        \* bookkeeping about the current window of each send slot
    rx,             \* receive window of each receive slot
    xSession,       \* handle based revisions: the transfer-session handle
    heap,           \* handle based revisions: send-session objects
    usUUID,         \* handle based revisions: prusGenerateUUID's static counter
    link            \* the link and the peer behind it, when one is attached

p1vars == <<xParameters, sendSessions, recvSessions, timers, emitted, delivered,
            lastOp, halted, history, rx>>
hvars == <<xSession, heap, usUUID>>
vars == <<p1vars, hvars, link>>

(***************************************************************************)
(* prxSendBlock: frame one block and hand it to the link.                  *)
(* faultKind is the environment fault hitting this block, if any.          *)
(* _BLOCK_DATA and _FLAGS both name offset 4, so a non-empty payload       *)
(* overwrites the flags byte (flagsIntact).                                *)
(***************************************************************************)
prxSendBlock_ShortSendIgnored(usSessionId, usBlockNum, xLastBlock, xResume, payloadFrom, xDataLength, faultKind) ==
    LET xBlockLength == BLOCK_LEN(xDataLength)
        frame == [type |-> "block", id |-> usSessionId, num |-> usBlockNum,
                  last |-> xLastBlock, resume |-> xResume,
                  reserved |-> TRUE,
                  flagsIntact |-> (xDataLength = 0),
                  payload |-> payloadFrom,
                  dataLen |-> xDataLength, length |-> xBlockLength,
                  complete |-> (faultKind # "partial")]
    IN  IF AllocFails(xBlockLength, faultKind = "nomem")
        THEN [err |-> NO_MEMORY, frames |-> <<>>, ub |-> FALSE]
        ELSE [err |-> SUCCESS, frames |-> <<frame>>,
              ub |-> (xBlockLength < xDataLength)]

prxSendBlock(usSessionId, usBlockNum, xLastBlock, xResume, payloadFrom, xDataLength, faultKind) ==
    LET xBlockLength == BLOCK_LEN(xDataLength)
        frame == [type |-> "block", id |-> usSessionId, num |-> usBlockNum,
                  last |-> xLastBlock, resume |-> xResume,
                  reserved |-> TRUE,
                  flagsIntact |-> (xDataLength = 0),
                  payload |-> payloadFrom,
                  dataLen |-> xDataLength, length |-> xBlockLength,
                  complete |-> (faultKind # "partial")]
    IN  IF AllocFails(xBlockLength, faultKind = "nomem")
        THEN [err |-> NO_MEMORY, frames |-> <<>>, ub |-> FALSE]
        ELSE [err |-> IF faultKind = "partial" THEN NETWORK_ERROR ELSE SUCCESS,
              frames |-> <<frame>>,
              \* the buffer is shorter than what memcpy writes into it
              ub |-> (xBlockLength < xDataLength)]

(***************************************************************************)
(* prvSendACK: frame an ACK and hand it to the link.  When the allocation  *)
(* fails the function returns the error code it was given.                 *)
(***************************************************************************)
prvSendACK(usSessionId, xError, xBitMapLength, faultKind) ==
    LET xAckLength == ACK_LENGTH(xBitMapLength)
        frame == [type |-> "ack", id |-> usSessionId, err |-> xError,
                  bitmapLen |-> xBitMapLength, length |-> xAckLength,
                  complete |-> (faultKind # "partial")]
    IN  IF AllocFails(xAckLength, faultKind = "nomem")
        THEN [err |-> xError, frames |-> <<>>, ub |-> FALSE]
        ELSE [err |-> IF faultKind = "partial" THEN NETWORK_ERROR ELSE xError,
              frames |-> <<frame>>,
              ub |-> (xAckLength < xBitMapLength)]

FaultAt(fault, ulIndex) ==
    IF fault.at = ulIndex + 1 THEN fault.kind ELSE "none"

(***************************************************************************)
(* prxSendWindow: the for loop over ulIndex.                               *)
(***************************************************************************)
RECURSIVE SendWindowLoop(_, _, _, _, _)
SendWindowLoop(s, ulIndex, frames, ub, fault) ==
    IF ulIndex >= s.usWindowSize
    THEN [err |-> SUCCESS, frames |-> frames, ub |-> ub]
    ELSE LET ulBlockNum == (s.usBlockNum + ulIndex) % UINT16_MODULUS
             xOffset    == (s.xOffset + ulBlockNum * s.usBlockSize) % SIZE_MODULUS
             xLastBlock == (xOffset + s.usBlockSize) >= s.xObjectLength
             xLength    == IF xLastBlock THEN SizeSub(s.xObjectLength, xOffset)
                           ELSE s.usBlockSize
             \* pucBlock = ( pxSession->xObjectLength + xOffset ): not the object
             r == prxSendBlock(s.usSessionID, ulBlockNum, xLastBlock, FALSE,
                               "stray", xLength, FaultAt(fault, ulIndex))
         IN  IF r.err # SUCCESS \/ xLastBlock
             THEN [err |-> r.err, frames |-> frames \o r.frames, ub |-> ub \/ r.ub]
             ELSE SendWindowLoop(s, ulIndex + 1, frames \o r.frames, ub \/ r.ub, fault)

prxSendWindow(s, fault) == SendWindowLoop(s, 0, <<>>, FALSE, fault)

(***************************************************************************)
(* Timer service.                                                          *)
(***************************************************************************)
\* The timer id given to xTimerCreate: the session the timer belongs to.
NoOwner == [kind |-> "none", slot |-> 0]
SendOwner(slot) == [kind |-> "send", slot |-> slot]
RecvOwner(slot) == [kind |-> "recv", slot |-> slot]

FreeTimers(tm) == {t \in DOMAIN tm : tm[t].st = "free"}

MinOf(S) == CHOOSE x \in S : \A y \in S : x <= y

\* xTimerCreate: NULL when the heap cannot hold another timer.
xTimerCreate(tm, fault) ==
    IF fault.kind = "timerCreate" \/ FreeTimers(tm) = {} THEN NULL
    ELSE MinOf(FreeTimers(tm))

TimerSet(tm, t, st, owner) == [tm EXCEPT ![t] = [st |-> st, owner |-> owner]]

(***************************************************************************)
(* prxCreateSendSession.  usRetriesLeft and xState are not assigned.       *)
(***************************************************************************)
prxCreateSendSession(s, tm, slot, usSessionId, xObjectLength, fault) ==
    LET xTimer == xTimerCreate(tm, fault)
        s1 == [s EXCEPT !.usSessionID = usSessionId,
                        !.xObjectLength = xObjectLength,
                        !.xOffset = 0,
                        !.usBlockNum = 0,
                        !.usWindowSize = xParameters.windowSize,
                        !.usBlockSize = MAX_BLOCK_DATA_LEN(xParameters.usMTU),
                        !.usNumRetries = xParameters.numRetransmissions,
                        !.xRetransmitTimer = xTimer]
        tm1 == IF xTimer = NULL THEN tm ELSE TimerSet(tm, xTimer, "dormant", SendOwner(slot))
        w   == prxSendWindow(s1, fault)
    IN  IF xTimer = NULL
        THEN [session |-> s1, timers |-> tm1, err |-> INTERNAL_ERROR,
              frames |-> <<>>, ub |-> FALSE]
        ELSE IF w.err # SUCCESS
        THEN [session |-> s1, timers |-> tm1, err |-> w.err,
              frames |-> w.frames, ub |-> w.ub]
        ELSE IF fault.kind = "timerStart"
        THEN [session |-> s1, timers |-> tm1, err |-> INTERNAL_ERROR,
              frames |-> w.frames, ub |-> w.ub]
        ELSE [session |-> s1, timers |-> TimerSet(tm1, xTimer, "active", SendOwner(slot)),
              err |-> SUCCESS, frames |-> w.frames, ub |-> w.ub]


(***************************************************************************)
(* prxIsValueSet: bit ulValue of the bitmap.  A bitmap is modelled by the  *)
(* set of the positions of its set bits.                                   *)
(***************************************************************************)
prxIsValueSet(bits, ulValue) == ulValue \in bits

(***************************************************************************)
(* prxRetransmitMissingBlocks: the for loop over ulIndex.                  *)
(***************************************************************************)
RECURSIVE RetransmitLoop(_, _, _, _, _, _)
RetransmitLoop(s, bits, ulIndex, frames, ub, fault) ==
    IF ulIndex >= s.usWindowSize
    THEN [err |-> SUCCESS, frames |-> frames, ub |-> ub]
    ELSE LET ulBlockNum == (s.usBlockNum + ulIndex) % UINT16_MODULUS
             xOffset    == (s.xOffset + ulBlockNum * s.usBlockSize) % SIZE_MODULUS
             xLastBlock == (xOffset + s.usBlockSize) >= s.xObjectLength
             xLength    == IF xLastBlock THEN SizeSub(s.xObjectLength, xOffset)
                           ELSE s.usBlockSize
             r == prxSendBlock(s.usSessionID, ulBlockNum, xLastBlock, FALSE,
                               "object", xLength, FaultAt(fault, ulIndex))
         IN  IF ~prxIsValueSet(bits, ulBlockNum)
             THEN RetransmitLoop(s, bits, ulIndex + 1, frames, ub, fault)
             ELSE IF r.err # SUCCESS \/ xLastBlock
             THEN [err |-> r.err, frames |-> frames \o r.frames, ub |-> ub \/ r.ub]
             ELSE RetransmitLoop(s, bits, ulIndex + 1, frames \o r.frames,
                                 ub \/ r.ub, fault)

prxRetransmitMissingBlocks(s, bits, xBitMapLength, fault) ==
    IF xBitMapLength # BITMAP_SIZE(s.usWindowSize)
    THEN [err |-> INVALID_PACKET, frames |-> <<>>, ub |-> FALSE]
    ELSE RetransmitLoop(s, bits, 0, <<>>, FALSE, fault)

(***************************************************************************)
(* prvRetransmitWindow: callback of the retransmit timer xTimer, whose     *)
(* timer id is the session.  prxSendWindow's error code is compared with   *)
(* pdFALSE (0), which is the value of AWS_IOT_LARGE_OBJECT_TRANSFER_SUCCESS.*)
(***************************************************************************)
prvRetransmitWindow_RearmedWhenExhausted(s, tm, xTimer, fault) ==
    LET w == prxSendWindow(s, fault)
        owner == tm[xTimer].owner
    IN  IF s.usRetriesLeft > 0
        THEN IF w.err = SUCCESS
             THEN [session |-> [s EXCEPT !.xState = eFailed], timers |-> tm,
                   frames |-> w.frames, ub |-> w.ub, sentWindow |-> TRUE]
             ELSE IF fault.kind = "timerStart"
             THEN [session |-> [s EXCEPT !.usRetriesLeft = s.usRetriesLeft - 1,
                                         !.xState = eFailed],
                   timers |-> tm, frames |-> w.frames, ub |-> w.ub,
                   sentWindow |-> TRUE]
             ELSE [session |-> [s EXCEPT !.usRetriesLeft = s.usRetriesLeft - 1],
                   timers |-> TimerSet(tm, xTimer, "active", owner),
                   frames |-> w.frames, ub |-> w.ub, sentWindow |-> TRUE]
        ELSE [session |-> [s EXCEPT !.xState = eFailed],
              timers |-> TimerSet(tm, xTimer, "active", owner),
              frames |-> <<>>, ub |-> FALSE, sentWindow |-> FALSE]

prvRetransmitWindow_NoRetryLimit(s, tm, xTimer, fault) ==
    LET w == prxSendWindow(s, fault)
        owner == tm[xTimer].owner
    IN  IF w.err # SUCCESS \/ fault.kind = "timerStart"
        THEN [session |-> [s EXCEPT !.xState = eFailed], timers |-> tm,
              frames |-> w.frames, ub |-> w.ub, sentWindow |-> TRUE]
        ELSE [session |-> s, timers |-> TimerSet(tm, xTimer, "active", owner),
              frames |-> w.frames, ub |-> w.ub, sentWindow |-> TRUE]

prvRetransmitWindow(s, tm, xTimer, fault) ==
    LET w == prxSendWindow(s, fault)
        owner == tm[xTimer].owner
    IN  IF s.usRetriesLeft > 0
        THEN IF w.err = SUCCESS
             THEN [session |-> [s EXCEPT !.xState = eFailed], timers |-> tm,
                   frames |-> w.frames, ub |-> w.ub, sentWindow |-> TRUE]
             ELSE IF fault.kind = "timerStart"
             THEN [session |-> [s EXCEPT !.usRetriesLeft = s.usRetriesLeft - 1,
                                         !.xState = eFailed],
                   timers |-> tm, frames |-> w.frames, ub |-> w.ub,
                   sentWindow |-> TRUE]
             ELSE [session |-> [s EXCEPT !.usRetriesLeft = s.usRetriesLeft - 1],
                   timers |-> TimerSet(tm, xTimer, "active", owner),
                   frames |-> w.frames, ub |-> w.ub, sentWindow |-> TRUE]
        ELSE [session |-> [s EXCEPT !.xState = eFailed], timers |-> tm,
              frames |-> <<>>, ub |-> FALSE, sentWindow |-> FALSE]

(***************************************************************************)
(* prvProcessACK.  ack = [xLength, err, bits]: the datagram's length, its  *)
(* byte 2 and the set bits of the bytes from offset 3 on.                  *)
(* xTimerStop on a NULL handle is undefined.                               *)
(***************************************************************************)
prvProcessACK_ErrorByteIgnored(s, tm, slot, ack, fault) ==
    LET xTimer == s.xRetransmitTimer
        e1 == IF ack.xLength < 3 THEN INVALID_PACKET ELSE SUCCESS
        stopUB == (e1 = SUCCESS) /\ (xTimer = NULL)
        e2 == IF e1 = SUCCESS /\ fault.kind = "timerStop" THEN INTERNAL_ERROR ELSE e1
        tm2 == IF e2 = SUCCESS /\ xTimer # NULL
               THEN TimerSet(tm, xTimer, "dormant", tm[xTimer].owner) ELSE tm
        usBitMapLen == BITMAP_LEN(ack.xLength)
        m == prxRetransmitMissingBlocks(s, ack.bits, usBitMapLen, fault)
        usBlockNum == INCR_WINDOW(s.usBlockNum, s.usWindowSize)
        xOffset == IF usBlockNum = 0
                   THEN INCR_OFFSET(s.xOffset, s.usWindowSize, s.usBlockSize)
                   ELSE s.xOffset
        sAdv == [s EXCEPT !.usBlockNum = usBlockNum, !.xOffset = xOffset]
        w == prxSendWindow(sAdv, fault)
        failed(x) == [x EXCEPT !.xState = eFailed]
    IN  IF e2 # SUCCESS
        THEN [session |-> failed(s), timers |-> tm2, frames |-> <<>>,
              ub |-> FALSE, err |-> e2, advanced |-> FALSE, sentWindow |-> FALSE]
        ELSE IF usBitMapLen # 0
        THEN [session |-> IF m.err = SUCCESS THEN s ELSE failed(s),
              timers |-> tm2, frames |-> m.frames, ub |-> stopUB \/ m.ub,
              err |-> m.err, advanced |-> FALSE, sentWindow |-> FALSE]
        ELSE IF xOffset < s.xObjectLength
        THEN IF w.err # SUCCESS
             THEN [session |-> failed(sAdv), timers |-> tm2, frames |-> w.frames,
                   ub |-> stopUB \/ w.ub \/ (s.usWindowSize = 0), err |-> w.err,
                   advanced |-> TRUE, sentWindow |-> TRUE]
             ELSE IF fault.kind = "timerStart"
             THEN [session |-> failed(sAdv), timers |-> tm2, frames |-> w.frames,
                   ub |-> stopUB \/ w.ub \/ (s.usWindowSize = 0),
                   err |-> INTERNAL_ERROR, advanced |-> TRUE, sentWindow |-> TRUE]
             ELSE [session |-> sAdv,
                   timers |-> IF xTimer = NULL THEN tm2
                              ELSE TimerSet(tm2, xTimer, "active", tm[xTimer].owner),
                   frames |-> w.frames,
                   ub |-> stopUB \/ w.ub \/ (s.usWindowSize = 0), err |-> SUCCESS,
                   advanced |-> TRUE, sentWindow |-> TRUE]
        ELSE [session |-> [sAdv EXCEPT !.xState = eComplete], timers |-> tm2,
              frames |-> <<>>, ub |-> stopUB \/ (s.usWindowSize = 0),
              err |-> SUCCESS, advanced |-> TRUE, sentWindow |-> FALSE]

prvProcessACK(s, tm, slot, ack, fault) ==
    LET xTimer == s.xRetransmitTimer
        e1 == IF ack.xLength < 3 THEN INVALID_PACKET
              ELSE IF ack.err # 0 THEN "PEER_ERROR" ELSE SUCCESS
        stopUB == (e1 = SUCCESS) /\ (xTimer = NULL)
        e2 == IF e1 = SUCCESS /\ fault.kind = "timerStop" THEN INTERNAL_ERROR ELSE e1
        tm2 == IF e2 = SUCCESS /\ xTimer # NULL
               THEN TimerSet(tm, xTimer, "dormant", tm[xTimer].owner) ELSE tm
        usBitMapLen == BITMAP_LEN(ack.xLength)
        m == prxRetransmitMissingBlocks(s, ack.bits, usBitMapLen, fault)
        usBlockNum == INCR_WINDOW(s.usBlockNum, s.usWindowSize)
        xOffset == IF usBlockNum = 0
                   THEN INCR_OFFSET(s.xOffset, s.usWindowSize, s.usBlockSize)
                   ELSE s.xOffset
        sAdv == [s EXCEPT !.usBlockNum = usBlockNum, !.xOffset = xOffset]
        w == prxSendWindow(sAdv, fault)
        failed(x) == [x EXCEPT !.xState = eFailed]
    IN  IF e2 # SUCCESS
        THEN [session |-> failed(s), timers |-> tm2, frames |-> <<>>,
              ub |-> FALSE, err |-> e2, advanced |-> FALSE, sentWindow |-> FALSE]
        ELSE IF usBitMapLen # 0
        THEN [session |-> IF m.err = SUCCESS THEN s ELSE failed(s),
              timers |-> tm2, frames |-> m.frames, ub |-> stopUB \/ m.ub,
              err |-> m.err, advanced |-> FALSE, sentWindow |-> FALSE]
        ELSE IF xOffset < s.xObjectLength
        THEN IF w.err # SUCCESS
             THEN [session |-> failed(sAdv), timers |-> tm2, frames |-> w.frames,
                   ub |-> stopUB \/ w.ub \/ (s.usWindowSize = 0), err |-> w.err,
                   advanced |-> TRUE, sentWindow |-> TRUE]
             ELSE IF fault.kind = "timerStart"
             THEN [session |-> failed(sAdv), timers |-> tm2, frames |-> w.frames,
                   ub |-> stopUB \/ w.ub \/ (s.usWindowSize = 0),
                   err |-> INTERNAL_ERROR, advanced |-> TRUE, sentWindow |-> TRUE]
             ELSE [session |-> sAdv,
                   timers |-> IF xTimer = NULL THEN tm2
                              ELSE TimerSet(tm2, xTimer, "active", tm[xTimer].owner),
                   frames |-> w.frames,
                   ub |-> stopUB \/ w.ub \/ (s.usWindowSize = 0), err |-> SUCCESS,
                   advanced |-> TRUE, sentWindow |-> TRUE]
        ELSE [session |-> [sAdv EXCEPT !.xState = eComplete], timers |-> tm2,
              frames |-> <<>>, ub |-> stopUB \/ (s.usWindowSize = 0),
              err |-> SUCCESS, advanced |-> TRUE, sentWindow |-> FALSE]


(***************************************************************************)
(* Inbound datagrams.  An ACK shaped datagram is [id, xLength, err, bits]; *)
(* a block shaped one is block k of the peer's object of MaxRxBlocks       *)
(* blocks, numbered k mod 2 * windowSize, the last one flagged LAST.       *)
(***************************************************************************)
DatagramIds == 0..MaxSessionId

\* Bitmaps of the right length: empty, one bit set, every bit set.
Bitmaps(W) ==
    {{}, 0..(NUM_BLOCKS_PER_WINDOW(W) - 1)}
    \cup {{b} : b \in 0..(NUM_BLOCKS_PER_WINDOW(W) - 1)}

\* Truncated, zero-bitmap (also with a peer error code), over-long, and
\* bitmaps of the right length.
AckShapes(W) ==
    {[xLength |-> l, err |-> 0, bits |-> {}] :
        l \in {2, ACK_HEADER_LEN, ACK_LENGTH(BITMAP_SIZE(W)) + 1}}
    \cup {[xLength |-> ACK_HEADER_LEN, err |-> 7, bits |-> {}]}
    \cup {[xLength |-> ACK_LENGTH(BITMAP_SIZE(W)), err |-> 0, bits |-> b] :
            b \in Bitmaps(W)}

AckDatagrams(W) ==
    {[kind |-> "ack", id |-> i, xLength |-> a.xLength, err |-> a.err,
      bits |-> a.bits, k |-> 0] : i \in DatagramIds, a \in AckShapes(W)}

BlockDatagrams(W, B) ==
    {[kind |-> "block", id |-> i, xLength |-> BLOCK_HEADER_LEN + B,
      err |-> (k % NUM_BLOCKS_PER_WINDOW(W)) % 256,
      \* bytes 3.. of a block: high byte of the number, the flags, a zero payload
      bits |-> {8 + 5, 8 + 6, 8 + 7} \cup (IF k = MaxRxBlocks - 1 THEN {8} ELSE {}),
      k |-> k] :
        i \in DatagramIds, k \in 0..(MaxRxBlocks - 1)}

Datagrams(W, B) == AckDatagrams(W) \cup BlockDatagrams(W, B)

\* Datagrams carrying the id of a send slot (a slot's index is its id), and
\* the others.
SendDatagrams(W, B) == {d \in Datagrams(W, B) : d.id \in SendSlots}
RecvDatagrams(W, B) == {d \in Datagrams(W, B) : d.id \notin SendSlots}

RxBlockNum(d, W) == d.k % NUM_BLOCKS_PER_WINDOW(W)
RxBlockLast(d) == d.k = MaxRxBlocks - 1

(***************************************************************************)
(* prvProcessBlock: "TODO: To be implemented".                             *)
(***************************************************************************)
prvProcessBlock(r, d) == r

(***************************************************************************)
(* prxCreateReceiveSession.  The ACK timer is created and never started;   *)
(* xState is not assigned.                                                 *)
(***************************************************************************)
prxCreateReceiveSession(r, tm, slot, usSessionId, fault) ==
    LET xTimer == xTimerCreate(tm, fault)
        r1 == [r EXCEPT !.usSessionID = usSessionId,
                        !.xOffset = 0,
                        !.usWindowSize = xParameters.windowSize,
                        !.usBlockSize = MAX_BLOCK_DATA_LEN(xParameters.usMTU),
                        !.usNumRetries = xParameters.numRetransmissions,
                        !.usRetriesLeft = xParameters.numRetransmissions,
                        !.xAckTimer = xTimer]
    IN  [session |-> r1,
         timers |-> IF xTimer = NULL THEN tm
                    ELSE TimerSet(tm, xTimer, "dormant", RecvOwner(slot)),
         err |-> IF xTimer = NULL THEN INTERNAL_ERROR ELSE SUCCESS]

(***************************************************************************)
(* prvHandleBlock is called on the first datagram of a new receive session *)
(* and defined nowhere in the sources: the data-block handling and ACK     *)
(* emission of the design (one block into an empty window).                *)
(***************************************************************************)
EmptyRx == [first |-> 0, got |-> {}, seen |-> {}]

prvHandleBlock(r, d) ==
    LET W == r.usWindowSize
        B == r.usBlockSize
        idx == RxBlockNum(d, W)
        complete == (W = 1) \/ (RxBlockLast(d) /\ idx = 0)
    IN  IF d.kind # "block" \/ idx >= W
        THEN [rx |-> EmptyRx, calls |-> <<>>, frames |-> <<>>, session |-> r]
        ELSE IF complete
        THEN [rx |-> [first |-> INCR_WINDOW(0, W), got |-> {}, seen |-> {}],
              calls |-> <<[id |-> r.usSessionID, offset |-> r.xOffset + idx * B,
                           length |-> d.xLength - BLOCK_HEADER_LEN]>>,
              frames |-> prvSendACK(r.usSessionID, SUCCESS, 0, "none").frames,
              session |-> [r EXCEPT !.xOffset = r.xOffset + W * B,
                                    !.xState = IF RxBlockLast(d) THEN eComplete
                                               ELSE r.xState]]
        ELSE [rx |-> [first |-> 0, got |-> {idx}, seen |-> {}],
              calls |-> <<>>, frames |-> <<>>, session |-> r]

(***************************************************************************)
(* State after AwsIotLargeObjectTransfer_Init: both session arrays are     *)
(* zeroed by memset.                                                       *)
(***************************************************************************)
ZeroSend == [usSessionID |-> 0, xObjectLength |-> 0, xOffset |-> 0, usBlockNum |-> 0,
             usWindowSize |-> 0, usBlockSize |-> 0, usNumRetries |-> 0,
             usRetriesLeft |-> 0, xState |-> eInit, xRetransmitTimer |-> NULL]

ZeroRecv == [usSessionID |-> 0, xOffset |-> 0, usWindowSize |-> 0, usBlockSize |-> 0,
             usNumRetries |-> 0, usRetriesLeft |-> 0, xState |-> eInit,
             xAckTimer |-> NULL]

\* lastOp: the operation, its return value, and
\*   full        : it was a well formed zero-bitmap ACK with error byte 0,
\*   outstanding : the session it hit was non-terminal with its timer running,
\*   hadLast     : the window outstanding before it carried the LAST block.
NoOp == [op |-> "init", ret |-> SUCCESS, full |-> FALSE,
         outstanding |-> FALSE, hadLast |-> FALSE, peerError |-> FALSE]

AwsIotLargeObjectTransfer_Init ==
    /\ xParameters \in [windowSize : WindowSizes, usMTU : MTUs,
                        numRetransmissions : Retransmissions]
    /\ sendSessions = [i \in SendSlots |-> ZeroSend]
    /\ recvSessions = [i \in RecvSlots |-> ZeroRecv]
    /\ timers = [t \in TimerIds |-> [st |-> "free", owner |-> NoOwner]]
    /\ emitted = <<>>
    /\ delivered = <<>>
    /\ lastOp = NoOp
    /\ halted = FALSE
    /\ history = [i \in SendSlots |-> [sentLast |-> FALSE, copies |-> 0]]
    /\ rx = [i \in RecvSlots |-> EmptyRx]

HasLast(frames) == \E i \in 1..Len(frames) : frames[i].last /\ frames[i].complete

TimerState(tm, t) == IF t = NULL THEN "none" ELSE tm[t].st


AllComplete(frames) == \A i \in 1..Len(frames) : frames[i].complete

Outstanding(s, tm) ==
    s.xState \notin {eFailed, eComplete} /\ TimerState(tm, s.xRetransmitTimer) = "active"

(***************************************************************************)
(* The link.  With no peer attached, what the device emits leaves the      *)
(* model and inbound datagrams are the environment's choice.  With a peer  *)
(* attached, toPeer holds the frames on their way to it, toDevice the      *)
(* datagrams on their way back, gotLast whether the peer has received the  *)
(* window that carries the LAST block.                                     *)
(***************************************************************************)
NoLink == [attached |-> FALSE, toPeer |-> <<>>, toDevice |-> <<>>, gotLast |-> FALSE]

\* pxNetworkIface->send
Transmit(l, frames) ==
    IF l.attached THEN [l EXCEPT !.toPeer = @ \o frames] ELSE l

\* the datagram handed to prvNetworkReceiveCallback leaves the link
Consume(l) ==
    IF l.attached /\ l.toDevice # <<>> THEN [l EXCEPT !.toDevice = Tail(@)] ELSE l

(***************************************************************************)
(* AwsIotLargeObjectTransfer_Send (part_001): the first free slot, whose   *)
(* index becomes the session id.                                           *)
(***************************************************************************)
AwsIotLargeObjectTransfer_Send_p1(xObjectLength, fault) ==
    /\ ~halted
    /\ LET free == {i \in SendSlots : SESSION_FREE(sendSessions[i].xState)}
           usIndex == MinOf(free)
           c == prxCreateSendSession(sendSessions[usIndex], timers, usIndex, usIndex,
                                     xObjectLength, fault)
       IN  IF free = {}
           THEN /\ lastOp' = [NoOp EXCEPT !.op = "send", !.ret = MAX_SESSIONS_REACHED]
                /\ emitted' = <<>>
                /\ UNCHANGED <<sendSessions, timers, history, halted>>
           ELSE /\ sendSessions' = [sendSessions EXCEPT ![usIndex] = c.session]
                /\ timers' = c.timers
                /\ emitted' = c.frames
                /\ history' = [history EXCEPT ![usIndex] =
                                  [sentLast |-> c.err = SUCCESS /\ HasLast(c.frames),
                                   copies |-> IF c.frames # <<>> THEN 1 ELSE 0]]
                /\ lastOp' = [NoOp EXCEPT !.op = "send", !.ret = c.err]
                /\ halted' \in UBOutcomes(c.ub)
    /\ UNCHANGED <<xParameters, recvSessions, delivered, rx, hvars>>
    /\ link' = Transmit(link, emitted')

(***************************************************************************)
(* The retransmit timer xTimer expires: a one-shot timer goes dormant and  *)
(* its callback prvRetransmitWindow runs on the session it was created for.*)
(***************************************************************************)
TimerExpiry(xTimer, fault) ==
    /\ ~halted
    /\ timers[xTimer].st = "active"
    /\ timers[xTimer].owner.kind = "send"
    /\ LET slot == timers[xTimer].owner.slot
           tm0 == TimerSet(timers, xTimer, "dormant", timers[xTimer].owner)
           r == prvRetransmitWindow(sendSessions[slot], tm0, xTimer, fault)
       IN  /\ sendSessions' = [sendSessions EXCEPT ![slot] = r.session]
           /\ timers' = r.timers
           /\ emitted' = r.frames
           /\ history' = [history EXCEPT ![slot].copies =
                             IF r.sentWindow /\ r.frames # <<>> THEN @ + 1 ELSE @]
           /\ lastOp' = [NoOp EXCEPT !.op = "timer",
                                     !.ret = IF r.session.xState = eFailed
                                             THEN INTERNAL_ERROR ELSE SUCCESS,
                                     !.outstanding = TRUE]
           /\ halted' \in UBOutcomes(r.ub)
    /\ UNCHANGED <<xParameters, recvSessions, delivered, rx, hvars>>
    /\ link' = Transmit(link, emitted')

(***************************************************************************)
(* AwsIotLargeObjectTransfer_Resume.  The loop visits every send slot; no  *)
(* session is ever in state eAwsIotLargeObjectTransferDataSend.            *)
(***************************************************************************)
AwsIotLargeObjectTransfer_Resume(usSessionID, fault) ==
    /\ ~halted
    /\ LET hit == {i \in SendSlots :
                      /\ sendSessions[i].usSessionID = usSessionID
                      /\ sendSessions[i].xState # eDataSend
                      /\ sendSessions[i].xOffset < sendSessions[i].xObjectLength}
           i == MinOf(hit)
           s == sendSessions[i]
           w == prxSendWindow(s, fault)
           startUB == w.err = SUCCESS /\ s.xRetransmitTimer = NULL
           xError == IF w.err # SUCCESS THEN w.err
                     ELSE IF fault.kind = "timerStart" THEN INTERNAL_ERROR ELSE SUCCESS
       IN  IF hit = {}
           THEN /\ lastOp' = [NoOp EXCEPT !.op = "resume", !.ret = INVALID_PARAM]
                /\ emitted' = <<>>
                /\ UNCHANGED <<timers, history, halted>>
           ELSE /\ timers' = IF xError = SUCCESS /\ s.xRetransmitTimer # NULL
                             THEN TimerSet(timers, s.xRetransmitTimer, "active",
                                           timers[s.xRetransmitTimer].owner)
                             ELSE timers
                /\ emitted' = w.frames
                /\ history' = [history EXCEPT ![i].sentLast =
                                  @ \/ (w.err = SUCCESS /\ HasLast(w.frames))]
                /\ lastOp' = [NoOp EXCEPT !.op = "resume", !.ret = xError]
                /\ halted' \in UBOutcomes(w.ub \/ startUB)
    /\ UNCHANGED <<xParameters, sendSessions, recvSessions, delivered, rx, hvars>>
    /\ link' = Transmit(link, emitted')

(***************************************************************************)
(* AwsIotLargeObjectTransfer_Abort (part_001): returns INTERNAL_ERROR.     *)
(***************************************************************************)
AwsIotLargeObjectTransfer_Abort_p1(usSessionID) ==
    /\ ~halted
    /\ lastOp' = [NoOp EXCEPT !.op = "abort", !.ret = INTERNAL_ERROR,
                              !.outstanding =
                                  \E i \in SendSlots :
                                      /\ sendSessions[i].usSessionID = usSessionID
                                      /\ Outstanding(sendSessions[i], timers)]
    /\ emitted' = <<>>
    /\ UNCHANGED <<xParameters, sendSessions, recvSessions, timers, delivered,
                   halted, history, rx, hvars, link>>


(***************************************************************************)
(* prvNetworkReceiveCallback: one inbound datagram d.  Send slots are      *)
(* searched by session id first, then receive slots, then a free receive   *)
(* slot is taken for a new session.                                        *)
(***************************************************************************)
prvNetworkReceiveCallback(d, fault) ==
    /\ ~halted
    /\ \A i \in SendSlots :
          sendSessions[i].usSessionID = d.id => sendSessions[i].xOffset < MaxOffset
    /\ LET sendHit == {i \in SendSlots : sendSessions[i].usSessionID = d.id}
           recvHit == {i \in RecvSlots : recvSessions[i].usSessionID = d.id}
           freeRecv == {i \in RecvSlots : SESSION_FREE(recvSessions[i].xState)}
           i == MinOf(sendHit)
           j == MinOf(recvHit)
           f == MinOf(freeRecv)
           a == prvProcessACK(sendSessions[i], timers, i, d, fault)
           c == prxCreateReceiveSession(recvSessions[f], timers, f, d.id, fault)
           h == prvHandleBlock(c.session, d)
           lo == [NoOp EXCEPT !.op = d.kind]
       IN  CASE sendHit # {} ->
                 /\ sendSessions' = [sendSessions EXCEPT ![i] = a.session]
                 /\ timers' = a.timers
                 /\ emitted' = a.frames
                 /\ history' = [history EXCEPT ![i] =
                       IF ~a.advanced THEN @
                       ELSE [sentLast |-> a.sentWindow /\ a.err = SUCCESS
                                          /\ HasLast(a.frames),
                             copies |-> IF a.frames # <<>> THEN 1 ELSE 0]]
                 /\ lastOp' = [lo EXCEPT
                       !.ret = a.err,
                       !.full = (d.xLength = ACK_HEADER_LEN /\ d.err = 0),
                       !.outstanding = Outstanding(sendSessions[i], timers),
                       !.hadLast = history[i].sentLast,
                       !.peerError = (d.xLength >= ACK_HEADER_LEN /\ d.err # 0)]
                 /\ halted' \in UBOutcomes(a.ub)
                 /\ UNCHANGED <<recvSessions, delivered, rx>>
             [] sendHit = {} /\ recvHit # {} ->
                 /\ recvSessions' = [recvSessions EXCEPT ![j] = prvProcessBlock(@, d)]
                 /\ rx' = [rx EXCEPT ![j].seen =
                              IF d.kind = "block" THEN @ \cup {d.k} ELSE @]
                 /\ emitted' = <<>>
                 /\ lastOp' = lo
                 /\ UNCHANGED <<sendSessions, timers, history, halted, delivered>>
             [] sendHit = {} /\ recvHit = {} /\ freeRecv # {} ->
                 /\ recvSessions' = [recvSessions EXCEPT ![f] =
                       IF c.err = SUCCESS THEN h.session ELSE c.session]
                 /\ timers' = c.timers
                 /\ rx' = [rx EXCEPT ![f] =
                       IF c.err = SUCCESS
                       THEN [h.rx EXCEPT !.seen = IF d.kind = "block" THEN {d.k} ELSE {}]
                       ELSE [@ EXCEPT !.seen = {}]]
                 /\ emitted' = IF c.err = SUCCESS THEN h.frames ELSE <<>>
                 /\ delivered' = IF c.err = SUCCESS THEN delivered \o h.calls
                                 ELSE delivered
                 /\ lastOp' = [lo EXCEPT !.ret = c.err]
                 /\ UNCHANGED <<sendSessions, history, halted>>
             [] OTHER ->
                 /\ emitted' = <<>>
                 /\ lastOp' = [lo EXCEPT !.ret = MAX_SESSIONS_REACHED]
                 /\ UNCHANGED <<sendSessions, recvSessions, timers, history, halted,
                                delivered, rx>>
    /\ UNCHANGED <<xParameters, hvars>>
    /\ link' = Transmit(Consume(link), emitted')

\* prvProcessACK makes no call that can fail before it has accepted the
\* datagram's length and error byte.
AckFaultsFor(d) ==
    IF d.xLength < ACK_HEADER_LEN \/ d.err # 0 THEN {NoFault} ELSE AckFaults

\* prvRetransmitWindow makes a call that can fail only with retries left.
TimerFaultsFor(xTimer) ==
    IF \E i \in SendSlots : timers[xTimer].owner = SendOwner(i)
                             /\ sendSessions[i].usRetriesLeft > 0
    THEN SendFaults ELSE {NoFault}

\* Resume makes a call that can fail only for a session id it finds.
ResumeFaultsFor(usSessionID) ==
    IF \E i \in SendSlots : sendSessions[i].usSessionID = usSessionID
    THEN SendFaults ELSE {NoFault}

Params == <<xParameters.windowSize, MAX_BLOCK_DATA_LEN(xParameters.usMTU)>>

\* The sender: the application's calls, the retransmit timer, and datagrams
\* addressed to a send slot.
Next ==
    \/ \E xObjectLength \in ObjectLengths, fault \in CreateFaults :
          AwsIotLargeObjectTransfer_Send_p1(xObjectLength, fault)
    \/ \E d \in SendDatagrams(Params[1], Params[2]) :
          \E fault \in AckFaultsFor(d) : prvNetworkReceiveCallback(d, fault)
    \/ \E xTimer \in TimerIds :
          \E fault \in TimerFaultsFor(xTimer) : TimerExpiry(xTimer, fault)
    \/ \E usSessionID \in {0, MaxSessionId} :
          \E fault \in ResumeFaultsFor(usSessionID) :
              AwsIotLargeObjectTransfer_Resume(usSessionID, fault)
    \/ \E usSessionID \in {0, MaxSessionId} :
          AwsIotLargeObjectTransfer_Abort_p1(usSessionID)

\* No transfer-session handle exists.
NoHandle ==
    /\ xSession = [revision |-> "none", pxSendSession |-> NULL]
    /\ heap = [o \in ObjIds |-> FreeObject]
    /\ usUUID = 0

Init == AwsIotLargeObjectTransfer_Init /\ NoHandle /\ link = NoLink

Spec == Init /\ [][Next]_vars

\* The receiver: datagrams whose id names no send slot.
RecvNext ==
    \E d \in RecvDatagrams(Params[1], Params[2]), fault \in RecvFaults :
        prvNetworkReceiveCallback(d, fault)

RecvSpec == Init /\ [][RecvNext]_vars


(***************************************************************************)
(* The handle based revisions (lib and part_000).                          *)
(*   nomemSession : pvPortMalloc of the send-session object returns NULL   *)
(*   nomem        : pvPortMalloc of the START message returns NULL         *)
(*   serialize    : the encoder rejects the START message                  *)
(***************************************************************************)
HandleFaults ==
    {[at |-> 0, kind |-> k] :
        k \in {"none", "nomemSession", "nomem", "serialize", "partial",
               "timerCreate", "timerStart"}}

\* *pxSendParams / *pxObjectParams
SendParams ==
    [windowSize : WindowSizes, blockSize : {MAX_BLOCK_DATA_LEN(MaxMTU)},
     numRetransmissions : Retransmissions, objectSize : {MaxObjectLength}]

\* What a read of the never assigned pxSendSession->xSize can yield.
WildSizes == {0, MaxObjectLength}

HandleOwner(o) == [kind |-> "handle", slot |-> o]

\* pvPortMalloc( sizeof( _largeObjectSendSession_t ) )
pvPortMalloc(hp, failed) ==
    IF failed \/ {o \in ObjIds : ~hp[o].used} = {} THEN NULL
    ELSE MinOf({o \in ObjIds : ~hp[o].used})

\* prusGenerateUUID of lib: the counter starts at 1 and moves by 2.
prusGenerateUUID_lib(uuid) ==
    [usRet |-> uuid, usUUID |-> (uuid + 2) % UINT16_MODULUS]

\* prusGenerateUUID of part_000: the counter starts at 0 and moves by 1.
prusGenerateUUID_p0(uuid) ==
    [usRet |-> uuid, usUUID |-> (uuid + 1) % UINT16_MODULUS]

\* prxSerializeStartMessage: the fields of the START message.
prxSerializeStartMessage(uuid, xSize, params, fault) ==
    [xRet |-> fault.kind # "serialize",
     msg |-> [type |-> "start", id |-> uuid, size |-> xSize,
              blockSize |-> params.blockSize, windowSize |-> params.windowSize,
              numRetransmissions |-> params.numRetransmissions]]

(***************************************************************************)
(* prxStartLargeObjectTransferSession: serialise START and hand it to the  *)
(* link; xSent < xLength is a network error.                               *)
(***************************************************************************)
prxStartLargeObjectTransferSession(uuid, xSize, params, fault) ==
    LET m == prxSerializeStartMessage(uuid, xSize, params, fault)
    IN  IF ~m.xRet THEN [err |-> INTERNAL_ERROR, frames |-> <<>>]
        ELSE IF fault.kind = "nomem" THEN [err |-> NO_MEMORY, frames |-> <<>>]
        ELSE [err |-> IF fault.kind = "partial" THEN NETWORK_ERROR ELSE SUCCESS,
              frames |-> <<[msg |-> m.msg, type |-> "start",
                            complete |-> (fault.kind # "partial")]>>]

\* part_000 carries the same function; its START takes the size from pxParams.
prxStartLargeObjectTransferSession_p0(uuid, params, fault) ==
    prxStartLargeObjectTransferSession(uuid, params.objectSize, params, fault)

\* What Send returns once the session object is allocated (both revisions).
SendResult(xTimer, st, fault) ==
    IF xTimer = NULL THEN INTERNAL_ERROR
    ELSE IF st.err # SUCCESS THEN st.err
    ELSE IF fault.kind = "timerStart" THEN INTERNAL_ERROR
    ELSE SUCCESS

SessionsInUse(hp) == {o \in ObjIds : hp[o].used}

(***************************************************************************)
(* AwsIotLargeObjectTransfer_Send of lib.  On success the new send session *)
(* is not stored in the handle.                                            *)
(***************************************************************************)
AwsIotLargeObjectTransfer_Send_lib(pxSendParams, xSize, fault) ==
    /\ ~halted
    /\ xSession.revision = "lib"
    /\ usUUID < MaxUUID
    /\ LET pxSendSession == pvPortMalloc(heap, fault.kind = "nomemSession")
           g == prusGenerateUUID_lib(usUUID)
           xTimer == xTimerCreate(timers, fault)
           st == prxStartLargeObjectTransferSession(g.usRet, xSize, pxSendParams, fault)
           xError == SendResult(xTimer, st, fault)
           lo == [NoOp EXCEPT !.op = "send", !.outstanding = SessionsInUse(heap) # {}]
       IN  IF xSession.pxSendSession # NULL
           THEN /\ lastOp' = [lo EXCEPT !.ret = SESSION_FOUND]
                /\ emitted' = <<>>
                /\ UNCHANGED <<xSession, heap, usUUID, timers>>
           ELSE IF pxSendSession = NULL
           THEN /\ lastOp' = [lo EXCEPT !.ret = NO_MEMORY]
                /\ emitted' = <<>>
                /\ UNCHANGED <<xSession, heap, usUUID, timers>>
           ELSE /\ usUUID' = g.usUUID
                /\ lastOp' = [lo EXCEPT !.ret = xError]
                /\ emitted' = IF xTimer = NULL THEN <<>> ELSE st.frames
                /\ heap' = IF xError = SUCCESS
                           THEN [heap EXCEPT ![pxSendSession] =
                                    [used |-> TRUE, usUUID |-> g.usRet,
                                     xAckReceivedTimer |-> xTimer]]
                           ELSE heap
                /\ timers' = IF xError = SUCCESS
                             THEN TimerSet(timers, xTimer, "active",
                                           HandleOwner(pxSendSession))
                             ELSE timers
                /\ xSession' = IF xError = SUCCESS THEN xSession
                               ELSE [xSession EXCEPT !.pxSendSession = NULL]
    /\ UNCHANGED <<xParameters, sendSessions, recvSessions, delivered, halted,
                   history, rx, link>>

AwsIotLargeObjectTransfer_Send_p0_NoCleanup(pxObjectParams, fault) ==
    /\ ~halted
    /\ xSession.revision = "p0"
    /\ usUUID < MaxUUID
    /\ LET pxSendSession == pvPortMalloc(heap, fault.kind = "nomemSession")
           g == prusGenerateUUID_p0(usUUID)
           xTimer == xTimerCreate(timers, fault)
           st == prxStartLargeObjectTransferSession_p0(g.usRet, pxObjectParams, fault)
           xError == SendResult(xTimer, st, fault)
           lo == [NoOp EXCEPT !.op = "send", !.outstanding = SessionsInUse(heap) # {}]
       IN  IF xSession.pxSendSession # NULL
           THEN /\ lastOp' = [lo EXCEPT !.ret = SESSION_IN_PROGRESS]
                /\ emitted' = <<>>
                /\ UNCHANGED <<xSession, heap, usUUID, timers>>
           ELSE IF pxSendSession = NULL
           THEN /\ lastOp' = [lo EXCEPT !.ret = NO_MEMORY]
                /\ emitted' = <<>>
                /\ UNCHANGED <<xSession, heap, usUUID, timers>>
           ELSE /\ usUUID' = g.usUUID
                /\ lastOp' = [lo EXCEPT !.ret = xError]
                /\ emitted' = IF xTimer = NULL THEN <<>> ELSE st.frames
                /\ heap' = IF xTimer # NULL
                           THEN [heap EXCEPT ![pxSendSession] =
                                    [used |-> TRUE, usUUID |-> g.usRet,
                                     xAckReceivedTimer |-> xTimer]]
                           ELSE heap
                /\ timers' = IF xTimer # NULL
                             THEN TimerSet(timers, xTimer,
                                           IF xError = SUCCESS THEN "active"
                                           ELSE "dormant",
                                           HandleOwner(pxSendSession))
                             ELSE timers
                /\ xSession' = IF xTimer # NULL
                               THEN [xSession EXCEPT !.pxSendSession = pxSendSession]
                               ELSE xSession
    /\ UNCHANGED <<xParameters, sendSessions, recvSessions, delivered, halted,
                   history, rx, link>>

(***************************************************************************)
(* AwsIotLargeObjectTransfer_Send of part_000.  The handle points at the   *)
(* new send session from before START is emitted; every error path deletes *)
(* the timer, frees the session and clears the handle.                     *)
(***************************************************************************)
AwsIotLargeObjectTransfer_Send_p0(pxObjectParams, fault) ==
    /\ ~halted
    /\ xSession.revision = "p0"
    /\ usUUID < MaxUUID
    /\ LET pxSendSession == pvPortMalloc(heap, fault.kind = "nomemSession")
           g == prusGenerateUUID_p0(usUUID)
           xTimer == xTimerCreate(timers, fault)
           st == prxStartLargeObjectTransferSession_p0(g.usRet, pxObjectParams, fault)
           xError == SendResult(xTimer, st, fault)
           lo == [NoOp EXCEPT !.op = "send", !.outstanding = SessionsInUse(heap) # {}]
       IN  IF xSession.pxSendSession # NULL
           THEN /\ lastOp' = [lo EXCEPT !.ret = SESSION_IN_PROGRESS]
                /\ emitted' = <<>>
                /\ UNCHANGED <<xSession, heap, usUUID, timers>>
           ELSE IF pxSendSession = NULL
           THEN /\ lastOp' = [lo EXCEPT !.ret = NO_MEMORY]
                /\ emitted' = <<>>
                /\ UNCHANGED <<xSession, heap, usUUID, timers>>
           ELSE /\ usUUID' = g.usUUID
                /\ lastOp' = [lo EXCEPT !.ret = xError]
                /\ emitted' = IF xTimer = NULL THEN <<>> ELSE st.frames
                /\ heap' = IF xError = SUCCESS
                           THEN [heap EXCEPT ![pxSendSession] =
                                    [used |-> TRUE, usUUID |-> g.usRet,
                                     xAckReceivedTimer |-> xTimer]]
                           ELSE heap
                /\ timers' = IF xError = SUCCESS
                             THEN TimerSet(timers, xTimer, "active",
                                           HandleOwner(pxSendSession))
                             ELSE timers
                /\ xSession' = IF xError = SUCCESS
                               THEN [xSession EXCEPT !.pxSendSession = pxSendSession]
                               ELSE [xSession EXCEPT !.pxSendSession = NULL]
    /\ UNCHANGED <<xParameters, sendSessions, recvSessions, delivered, halted,
                   history, rx, link>>

(***************************************************************************)
(* AwsIotLargeObjectTransfer_AbortSession (both revisions): returns        *)
(* success.                                                                *)
(***************************************************************************)
AwsIotLargeObjectTransfer_AbortSession ==
    /\ ~halted
    /\ xSession.revision # "none"
    /\ lastOp' = [NoOp EXCEPT !.op = "abort", !.ret = SUCCESS,
                              !.outstanding = SessionsInUse(heap) # {}]
    /\ emitted' = <<>>
    /\ UNCHANGED <<xParameters, sendSessions, recvSessions, timers, delivered,
                   halted, history, rx, hvars, link>>

(***************************************************************************)
(* The timer of a handle based send session expires.  It was created with  *)
(* a NULL callback, which the timer task then calls.                       *)
(***************************************************************************)
AckReceivedTimerExpiry(xTimer) ==
    /\ ~halted
    /\ timers[xTimer].st = "active"
    /\ timers[xTimer].owner.kind = "handle"
    /\ timers' = TimerSet(timers, xTimer, "dormant", timers[xTimer].owner)
    /\ halted' \in UBOutcomes(TRUE)
    /\ lastOp' = [NoOp EXCEPT !.op = "timer"]
    /\ emitted' = <<>>
    /\ UNCHANGED <<xParameters, sendSessions, recvSessions, delivered, history,
                   rx, hvars, link>>

(***************************************************************************)
(* AwsIotLargeObjectTransfer_CreateNewSession / _CreateSession: the handle  *)
(* comes from pvPortMalloc and its pxSendSession field is not assigned.    *)
(***************************************************************************)
AwsIotLargeObjectTransfer_CreateNewSession ==
    /\ xSession \in [revision : {"lib", "p0"}, pxSendSession : {NULL, WildPointer}]
    /\ heap = [o \in ObjIds |-> FreeObject]
    /\ usUUID = IF xSession.revision = "lib" THEN 1 ELSE 0

\* The handle based revisions have no session tables; those variables stay at
\* their zero values.
HInit ==
    /\ xParameters = [windowSize |-> 1, usMTU |-> MaxMTU, numRetransmissions |-> 0]
    /\ sendSessions = [i \in SendSlots |-> ZeroSend]
    /\ recvSessions = [i \in RecvSlots |-> ZeroRecv]
    /\ timers = [t \in HandleTimerIds |-> [st |-> "free", owner |-> NoOwner]]
    /\ emitted = <<>>
    /\ delivered = <<>>
    /\ lastOp = NoOp
    /\ halted = FALSE
    /\ history = [i \in SendSlots |-> [sentLast |-> FALSE, copies |-> 0]]
    /\ rx = [i \in RecvSlots |-> EmptyRx]
    /\ link = NoLink
    /\ AwsIotLargeObjectTransfer_CreateNewSession

HNext ==
    \/ \E pxSendParams \in SendParams, xSize \in WildSizes, fault \in HandleFaults :
          AwsIotLargeObjectTransfer_Send_lib(pxSendParams, xSize, fault)
    \/ \E pxObjectParams \in SendParams, fault \in HandleFaults :
          AwsIotLargeObjectTransfer_Send_p0(pxObjectParams, fault)
    \/ AwsIotLargeObjectTransfer_AbortSession
    \/ \E xTimer \in HandleTimerIds : AckReceivedTimerExpiry(xTimer)

SpecH == HInit /\ [][HNext]_vars

(***************************************************************************)
(* The three functions that hand a datagram to the link, each applied to   *)
(* inputs of its own (specification EmitSpec).                             *)
(***************************************************************************)
EmitFaultKinds == {"none", "nomem", "partial"}

EmitBlock(usSessionId, usBlockNum, xLastBlock, xResume, xDataLength, faultKind) ==
    LET r == prxSendBlock(usSessionId, usBlockNum, xLastBlock, xResume, "object",
                          xDataLength, faultKind)
    IN  /\ emitted' = r.frames
        /\ lastOp' = [NoOp EXCEPT !.op = "prxSendBlock", !.ret = r.err]
        /\ halted' = FALSE
        /\ UNCHANGED <<xParameters, sendSessions, recvSessions, timers, delivered,
                       history, rx, hvars, link>>

EmitACK(usSessionId, xError, xBitMapLength, faultKind) ==
    LET r == prvSendACK(usSessionId, xError, xBitMapLength, faultKind)
    IN  /\ emitted' = r.frames
        /\ lastOp' = [NoOp EXCEPT !.op = "prvSendACK", !.ret = r.err]
        /\ halted' = FALSE
        /\ UNCHANGED <<xParameters, sendSessions, recvSessions, timers, delivered,
                       history, rx, hvars, link>>

EmitStart(uuid, xSize, params, fault) ==
    LET r == prxStartLargeObjectTransferSession(uuid, xSize, params, fault)
    IN  /\ emitted' = r.frames
        /\ lastOp' = [NoOp EXCEPT !.op = "prxStartLargeObjectTransferSession",
                                  !.ret = r.err]
        /\ halted' = FALSE
        /\ UNCHANGED <<xParameters, sendSessions, recvSessions, timers, delivered,
                       history, rx, hvars, link>>

EmitNext ==
    \/ \E usSessionId \in DatagramIds, usBlockNum \in 0..(2 * MaxWindowSize - 1),
          xLastBlock \in BOOLEAN, xResume \in BOOLEAN,
          xDataLength \in 0..MAX_BLOCK_DATA_LEN(MaxMTU), faultKind \in EmitFaultKinds :
          EmitBlock(usSessionId, usBlockNum, xLastBlock, xResume, xDataLength, faultKind)
    \/ \E usSessionId \in DatagramIds, xError \in {SUCCESS, INVALID_PACKET},
          xBitMapLength \in 0..BITMAP_SIZE(MaxWindowSize), faultKind \in EmitFaultKinds :
          EmitACK(usSessionId, xError, xBitMapLength, faultKind)
    \/ \E uuid \in 0..MaxUUID, xSize \in WildSizes, params \in SendParams,
          fault \in HandleFaults :
          EmitStart(uuid, xSize, params, fault)

EmitSpec == Init /\ [][EmitNext]_vars

(***************************************************************************)
(* The windowed sender with a peer attached (specification LiveSpec): one  *)
(* object is sent over a link that delivers every frame in order, to a     *)
(* peer that answers every completely received window with one ACK of no   *)
(* bitmap and falls silent once it has the window with the LAST block.     *)
(* No call fails.                                                          *)
(***************************************************************************)
\* The frames at the head of q that make up one window: windowSize frames,
\* or fewer when a frame carries LAST.
PeerWindowLen(q, windowSize) ==
    LET lasts == {n \in 1..Len(q) : q[n].last}
        cut == IF lasts = {} THEN Len(q) ELSE MinOf(lasts)
    IN  IF windowSize < cut THEN windowSize ELSE cut

PeerAck(usSessionId) ==
    [kind |-> "ack", id |-> usSessionId, xLength |-> ACK_HEADER_LEN, err |-> 0,
     bits |-> {}, k |-> 0]

\* The link delivers the next window to the peer.
PeerReceive ==
    /\ link.attached
    /\ link.toPeer # <<>>
    /\ LET n == PeerWindowLen(link.toPeer, xParameters.windowSize)
           win == SubSeq(link.toPeer, 1, n)
           whole == AllComplete(win) /\ (n = xParameters.windowSize \/ win[n].last)
       IN  link' = [link EXCEPT
                       !.toPeer = SubSeq(@, n + 1, Len(@)),
                       !.toDevice = IF whole /\ ~link.gotLast
                                    THEN Append(@, PeerAck(win[1].id)) ELSE @,
                       !.gotLast = @ \/ (whole /\ win[n].last)]
    /\ UNCHANGED <<p1vars, hvars>>

\* The link delivers the peer's next ACK to the device.
AckDelivery ==
    /\ link.attached
    /\ link.toDevice # <<>>
    /\ prvNetworkReceiveCallback(Head(link.toDevice), NoFault)

\* The application sends one object.
SendOnce(xObjectLength) ==
    /\ lastOp.op = "init"
    /\ AwsIotLargeObjectTransfer_Send_p1(xObjectLength, NoFault)

\* The application resumes its session whenever the link is idle.
ResumeWhenIdle ==
    /\ lastOp.op # "init"
    /\ link.toPeer = <<>> /\ link.toDevice = <<>>
    /\ AwsIotLargeObjectTransfer_Resume(0, NoFault)

RetransmitTimerExpiry == \E xTimer \in TimerIds : TimerExpiry(xTimer, NoFault)

LiveInit ==
    /\ AwsIotLargeObjectTransfer_Init
    /\ NoHandle
    /\ link = [NoLink EXCEPT !.attached = TRUE]

LiveNext ==
    \/ \E xObjectLength \in ObjectLengths : SendOnce(xObjectLength)
    \/ ResumeWhenIdle
    \/ RetransmitTimerExpiry
    \/ PeerReceive
    \/ AckDelivery

\* The timer task and the link run whenever they have something to do, and
\* the application keeps resuming.
LiveSpec ==
    /\ LiveInit
    /\ [][LiveNext]_vars
    /\ WF_vars(RetransmitTimerExpiry)
    /\ WF_vars(PeerReceive)
    /\ WF_vars(AckDelivery)
    /\ WF_vars(ResumeWhenIdle)

(***************************************************************************)
(* Claims about the windowed sender (specification Spec).                  *)
(***************************************************************************)
StartFrames(frames) == {n \in 1..Len(frames) : frames[n].type = "start"}
BlockFrames(frames) == {n \in 1..Len(frames) : frames[n].type = "block"}

\* C1: when a zero-bitmap ACK with error byte 0 is processed without error for
\* a session whose outstanding window carried the LAST block, the session is
\* Complete afterwards and the ACK made the sender emit no further frame.
C1_CompleteOnFinalAck ==
    (/\ lastOp.op = "ack" /\ lastOp.full /\ lastOp.outstanding /\ lastOp.hadLast
     /\ lastOp.ret = SUCCESS /\ ~halted)
    => \A i \in SendSlots : sendSessions[i].xState = eComplete /\ emitted = <<>>

\* C4: a window is sent at most max_retransmits + 1 times, counting its first
\* transmission and the retransmissions made by the retransmit timer.
C4_RetransmitBound ==
    \A i \in SendSlots : history[i].copies <= sendSessions[i].usNumRetries + 1

\* C4: the retransmit timer has expired on a session whose window was sent.
C4_Witness ==
    /\ lastOp.op = "timer"
    /\ \E i \in SendSlots : history[i].copies >= 1 /\ sendSessions[i].usNumRetries >= 1

\* C5: the session id a successful Send hands out is odd.
C5_SendIdOdd ==
    (lastOp.op = "send" /\ lastOp.ret = SUCCESS)
    => \A i \in SendSlots : sendSessions[i].usSessionID % 2 = 1

\* C8: when Send returns success, START has been emitted exactly once, the
\* blocks of the first window have been emitted and the retransmit timer runs.
C8_SendStartsSession ==
    (lastOp.op = "send" /\ lastOp.ret = SUCCESS /\ ~halted)
    => /\ Cardinality(StartFrames(emitted)) = 1
       /\ BlockFrames(emitted) # {}
       /\ \A i \in SendSlots :
             TimerState(timers, sendSessions[i].xRetransmitTimer) = "active"

\* C10: when Abort returns for a session that was in progress with its timer
\* running, the session is terminal and its retransmit timer is cancelled.
C10_AbortIsFinal ==
    (lastOp.op = "abort" /\ lastOp.outstanding)
    => \A i \in SendSlots :
          /\ sendSessions[i].xState \in {eFailed, eComplete}
          /\ TimerState(timers, sendSessions[i].xRetransmitTimer) # "active"


(***************************************************************************)
(* Claims about the receiver (specification RecvSpec).                     *)
(***************************************************************************)
\* The block callbacks made for session id, in the order they were made.
DeliveredTo(id) == SelectSeq(delivered, LAMBDA c : c.id = id)

\* C3: once every block of the peer's object has arrived at a receive session,
\* the block callbacks made for it are one per block, in ascending contiguous
\* offset order from 0, and cover the whole object.
C3_DeliveryInOrderOnce ==
    \A j \in RecvSlots :
        rx[j].seen = 0..(MaxRxBlocks - 1)
        => LET calls == DeliveredTo(recvSessions[j].usSessionID)
           IN  /\ Len(calls) = MaxRxBlocks
               /\ \A n \in 1..Len(calls) :
                     calls[n].offset = (n - 1) * recvSessions[j].usBlockSize

(***************************************************************************)
(* Claims about the handle based Send (specification SpecH).               *)
(***************************************************************************)
\* C6: a Send made on a handle whose earlier Send succeeded and has not
\* finished returns the session-in-progress error, emits nothing and leaves
\* the one send session with its one timer.
C6_SecondSendRejected ==
    (lastOp.op = "send" /\ lastOp.outstanding)
    => /\ lastOp.ret \in {SESSION_FOUND, SESSION_IN_PROGRESS}
       /\ emitted = <<>>
       /\ Cardinality(SessionsInUse(heap)) = 1
       /\ Cardinality({t \in HandleTimerIds : timers[t].st # "free"}) = 1

\* C7: a Send step that returns NO_MEMORY, INTERNAL_ERROR or NETWORK_ERROR
\* leaves the handle without a send session, and leaves the timers and the
\* send-session objects as they were before the call.
C7_FailedSendLeavesNothing ==
    [][(lastOp'.op = "send"
        /\ lastOp'.ret \in {NO_MEMORY, INTERNAL_ERROR, NETWORK_ERROR})
       => (/\ xSession'.pxSendSession = NULL
           /\ timers' = timers
           /\ heap' = heap)]_vars

\* C7: a Send has failed on a partial send of START, after its session object
\* and its timer had been created.
C7_Witness ==
    /\ lastOp.op = "send" /\ lastOp.ret = NETWORK_ERROR
    /\ emitted # <<>>
    /\ xSession.pxSendSession = NULL

(***************************************************************************)
(* Claim about the emitting functions (specification EmitSpec).            *)
(***************************************************************************)
\* C9: when the link reports fewer bytes sent than the datagram is long, the
\* emitting function returns NETWORK_ERROR.
C9_PartialSendIsNetworkError ==
    (\E n \in 1..Len(emitted) : ~emitted[n].complete)
    => lastOp.ret = NETWORK_ERROR

\* C9: an ACK was handed to the link and the link took only part of it.
C9_Witness ==
    /\ lastOp.op = "prvSendACK"
    /\ \E n \in 1..Len(emitted) : emitted[n].type = "ack" /\ ~emitted[n].complete


(***************************************************************************)
(* Claim about the sender with a peer attached (specification LiveSpec).   *)
(***************************************************************************)
\* C2: a send session that Send has started eventually reaches Complete.
C2_SessionCompletes ==
    (lastOp.op = "send" /\ lastOp.ret = SUCCESS)
    ~> (\E i \in SendSlots : sendSessions[i].xState = eComplete)

(***************************************************************************)
(* Claims about Resume and the send slots (specification Spec).            *)
(***************************************************************************)
\* C11: a Resume call made while every send session is Failed returns an
\* error, emits no data block and arms no timer.
C11_ResumeOnlyAfterTimeout ==
    [][(lastOp'.op = "resume"
        /\ \A i \in SendSlots : sendSessions[i].xState = eFailed)
       => (/\ lastOp'.ret # SUCCESS
           /\ emitted' = <<>>
           /\ timers' = timers)]_vars

\* C12: a Send call made while every send slot holds a session that is in
\* progress returns MAX_SESSIONS_REACHED and changes no send session.
C12_SendKeepsSessionsInProgress ==
    [][(lastOp'.op = "send"
        /\ \A i \in SendSlots : Outstanding(sendSessions[i], timers))
       => (/\ lastOp'.ret = MAX_SESSIONS_REACHED
           /\ sendSessions' = sendSessions)]_vars

\* C13: a Send call made while every send session is Complete or Failed does
\* not return MAX_SESSIONS_REACHED.
C13_TerminalSlotsAreFree ==
    [][(lastOp'.op = "send"
        /\ \A i \in SendSlots : sendSessions[i].xState \in {eComplete, eFailed})
       => lastOp'.ret # MAX_SESSIONS_REACHED]_vars

(***************************************************************************)
(* Claim about receive-session admission (specification RecvSpec).         *)
(***************************************************************************)
\* Receive slot j holds a session that was created, has seen its first block
\* and has neither seen its LAST block nor reached a terminal state.
RecvInProgress(j) ==
    /\ recvSessions[j].xAckTimer # NULL
    /\ 0 \in rx[j].seen
    /\ recvSessions[j].xState \notin {eComplete, eFailed}
    /\ (MaxRxBlocks - 1) \notin rx[j].seen

\* C14: while every receive slot holds a session in progress, no datagram
\* changes the id, offset, parameters or timer of any receive session.
C14_NoAdmissionWhenFull ==
    [][(\A j \in RecvSlots : RecvInProgress(j))
       => \A j \in RecvSlots :
             /\ recvSessions'[j].usSessionID = recvSessions[j].usSessionID
             /\ recvSessions'[j].xOffset = recvSessions[j].xOffset
             /\ recvSessions'[j].usWindowSize = recvSessions[j].usWindowSize
             /\ recvSessions'[j].usBlockSize = recvSessions[j].usBlockSize
             /\ recvSessions'[j].xAckTimer = recvSessions[j].xAckTimer]_vars

(***************************************************************************)
(* The sender facing any peer (specification ExpirySpec): one object is    *)
(* sent, the peer's datagrams are the environment's choice, no call fails, *)
(* and the timer task runs whenever a timer is due.  No revision creates a *)
(* timer for the session-expiry deadline.                                  *)
(***************************************************************************)
AnyDatagram ==
    \E d \in SendDatagrams(Params[1], Params[2]) : prvNetworkReceiveCallback(d, NoFault)

ExpiryNext ==
    \/ \E xObjectLength \in ObjectLengths : SendOnce(xObjectLength)
    \/ AnyDatagram
    \/ RetransmitTimerExpiry

ExpirySpec ==
    /\ Init
    /\ [][ExpiryNext]_vars
    /\ WF_vars(RetransmitTimerExpiry)

\* C15: a send session that Send has started eventually is Failed or Complete.
C15_SessionEndsByExpiry ==
    (lastOp.op = "send" /\ lastOp.ret = SUCCESS)
    ~> (\A i \in SendSlots : sendSessions[i].xState \in {eFailed, eComplete})

(***************************************************************************)
(* The sender on a context whose window size is out of range               *)
(* (specification ParamSpec).  windowSize is a uint16_t that no function   *)
(* checks: 0, the first value past 16384, and the first value whose double *)
(* does not fit in 16 bits.                                                *)
(***************************************************************************)
OutOfRangeWindowSizes == {0, 16385, 32768}

ParamInit ==
    /\ xParameters \in [windowSize : OutOfRangeWindowSizes, usMTU : MTUs,
                        numRetransmissions : Retransmissions]
    /\ sendSessions = [i \in SendSlots |-> ZeroSend]
    /\ recvSessions = [i \in RecvSlots |-> ZeroRecv]
    /\ timers = [t \in TimerIds |-> [st |-> "free", owner |-> NoOwner]]
    /\ emitted = <<>>
    /\ delivered = <<>>
    /\ lastOp = NoOp
    /\ halted = FALSE
    /\ history = [i \in SendSlots |-> [sentLast |-> FALSE, copies |-> 0]]
    /\ rx = [i \in RecvSlots |-> EmptyRx]
    /\ NoHandle
    /\ link = NoLink

ParamNext ==
    \/ \E xObjectLength \in ObjectLengths, fault \in CreateFaults :
          AwsIotLargeObjectTransfer_Send_p1(xObjectLength, fault)
    \/ \E xTimer \in TimerIds :
          \E fault \in TimerFaultsFor(xTimer) : TimerExpiry(xTimer, fault)
    \/ \E usSessionID \in {0, MaxSessionId} :
          \E fault \in ResumeFaultsFor(usSessionID) :
              AwsIotLargeObjectTransfer_Resume(usSessionID, fault)
    \/ \E usSessionID \in {0, MaxSessionId} :
          AwsIotLargeObjectTransfer_Abort_p1(usSessionID)

ParamSpec == ParamInit /\ [][ParamNext]_vars

\* C16: on a context whose window size is outside 1..16384, a Send call
\* returns INVALID_PARAM, emits nothing and leaves the send sessions and the
\* timers as they were.
C16_WindowSizeValidated ==
    [][(lastOp'.op = "send" /\ xParameters.windowSize \notin 1..16384)
       => (/\ lastOp'.ret = INVALID_PARAM
           /\ emitted' = <<>>
           /\ sendSessions' = sendSessions
           /\ timers' = timers)]_vars

(***************************************************************************)
(* Claims about the ACK handler and the timer callback; they hold under    *)
(* Spec and under RetransmitSpec.                                          *)
(***************************************************************************)
\* C17: a datagram for a send session whose error byte is not zero leaves the
\* session Failed and otherwise as it was (window base and block number
\* included), and no data block is emitted.
C17_PeerErrorFailsSession ==
    [][lastOp'.peerError
       => (/\ \A i \in SendSlots :
                 sendSessions'[i] = [sendSessions[i] EXCEPT !.xState = eFailed]
           /\ emitted' = <<>>)]_vars

\* C17: an ACK with a nonzero error byte has reached a session that was in
\* progress, with its window in flight.
C17_Witness ==
    /\ lastOp.op = "ack" /\ lastOp.peerError /\ lastOp.outstanding
    /\ \E i \in SendSlots : sendSessions[i].xState = eFailed /\ history[i].copies >= 1

ActiveTimers(tm) == {t \in DOMAIN tm : tm[t].st = "active"}

\* C19: when a retransmit timer fires for a send session whose usRetriesLeft
\* is 0, the session is Failed afterwards, no data block is emitted, and the
\* timer that fired is not running again.
C19_RetriesExhausted ==
    [][lastOp'.op = "timer"
       => \A i \in SendSlots :
             sendSessions[i].usRetriesLeft = 0
             => (/\ sendSessions'[i].xState = eFailed
                 /\ emitted' = <<>>
                 /\ ActiveTimers(timers') \subseteq ActiveTimers(timers)
                 /\ ActiveTimers(timers') # ActiveTimers(timers))]_vars

\* C19: the timer of a session created by Send has fired with no retries left,
\* a window being in flight.
C19_Witness ==
    /\ lastOp.op = "timer"
    /\ \E i \in SendSlots :
          /\ sendSessions[i].xRetransmitTimer # NULL
          /\ sendSessions[i].usRetriesLeft = 0
          /\ sendSessions[i].xState = eFailed
          /\ history[i].copies >= 1
          /\ timers[sendSessions[i].xRetransmitTimer].st = "dormant"

(***************************************************************************)
(* prvRetransmitWindow applied to a send session with retries left         *)
(* (specification RetransmitSpec).  prxCreateSendSession leaves            *)
(* usRetriesLeft as memset left it; here the session that Send has created *)
(* starts with usRetriesLeft drawn from 0..usNumRetries, so that both      *)
(* branches of the timer callback are exercised.  No call fails.           *)
(***************************************************************************)
RetransmitInit ==
    /\ xParameters \in [windowSize : WindowSizes, usMTU : MTUs,
                        numRetransmissions : Retransmissions]
    /\ \E xObjectLength \in ObjectLengths, usRetriesLeft \in 0..MaxRetransmissions :
          LET tm0 == [t \in TimerIds |-> [st |-> "free", owner |-> NoOwner]]
              c == prxCreateSendSession(ZeroSend, tm0, 0, 0, xObjectLength, NoFault)
          IN  /\ usRetriesLeft <= xParameters.numRetransmissions
              /\ sendSessions = [i \in SendSlots |->
                                    [c.session EXCEPT !.usRetriesLeft = usRetriesLeft]]
              /\ timers = c.timers
              /\ emitted = c.frames
              /\ history = [i \in SendSlots |->
                               [sentLast |-> HasLast(c.frames), copies |-> 1]]
    /\ recvSessions = [i \in RecvSlots |-> ZeroRecv]
    /\ delivered = <<>>
    /\ lastOp = [NoOp EXCEPT !.op = "send"]
    /\ halted = FALSE
    /\ rx = [i \in RecvSlots |-> EmptyRx]
    /\ NoHandle
    /\ link = NoLink

RetransmitNext ==
    \/ RetransmitTimerExpiry
    \/ AnyDatagram

RetransmitSpec == RetransmitInit /\ [][RetransmitNext]_vars

BlocksInFlight(i) == history[i].copies >= 1

\* C20: between operations, the retransmit timer of a send session is
\* running exactly when the session has unacknowledged blocks in flight and
\* is neither Complete nor Failed.
C20_TimerArmedIffInFlight ==
    ~halted =>
        \A i \in SendSlots :
            (TimerState(timers, sendSessions[i].xRetransmitTimer) = "active")
                <=> (BlocksInFlight(i)
                     /\ sendSessions[i].xState \notin {eComplete, eFailed})

(***************************************************************************)
(* The sender and its receive buffer (specification AckSpec).  One object  *)
(* of up to MaxAckObjectLength bytes is sent; link.toDevice holds the      *)
(* datagram the network stack hands to prvNetworkReceiveCallback           *)
(* (pvReceivedData).  The network may hand over any datagram addressed to  *)
(* the send slot, and the same one more than once.                         *)
(***************************************************************************)
MaxAckObjectLength == 5

AckObjectLengths == 1..MaxAckObjectLength

\* A datagram arrives in the receive buffer.
DatagramArrival(d) ==
    /\ ~halted
    /\ lastOp.op # "init"
    /\ link.toDevice # <<d>>
    /\ link' = [link EXCEPT !.toDevice = <<d>>]
    /\ UNCHANGED <<p1vars, hvars>>

\* The network stack calls prvNetworkReceiveCallback on the buffer.
DatagramHandled(fault) ==
    /\ link.toDevice # <<>>
    /\ fault \in AckFaultsFor(Head(link.toDevice))
    /\ prvNetworkReceiveCallback(Head(link.toDevice), fault)

\* xTimerStop succeeds or fails; no other call fails.
StopFaults == {f \in Faults : f.kind \in {"none", "timerStop"}}

AckSend(xObjectLength) ==
    /\ lastOp.op = "init"
    /\ AwsIotLargeObjectTransfer_Send_p1(xObjectLength, NoFault)

AckInit ==
    /\ AwsIotLargeObjectTransfer_Init
    /\ NoHandle
    /\ link = NoLink

AckNext ==
    \/ \E xObjectLength \in AckObjectLengths : AckSend(xObjectLength)
    \/ \E d \in SendDatagrams(Params[1], Params[2]) : DatagramArrival(d)
    \/ \E fault \in StopFaults : DatagramHandled(fault)
    \/ RetransmitTimerExpiry
    \/ AwsIotLargeObjectTransfer_Resume(0, NoFault)

AckSpec == AckInit /\ [][AckNext]_vars

\* The datagram in the receive buffer, and the send session it addresses.
ReceivedDatagram == Head(link.toDevice)

\* A step in which prvNetworkReceiveCallback handles the datagram in the
\* receive buffer as an ACK for a send session.
AckHandled == link.toDevice # <<>> /\ link' = link /\ lastOp'.op = "ack"

\* An ACK with error byte 0 and a bitmap of the length session s expects.
IsBitmapAck(d, s) ==
    d.err = 0 /\ d.xLength = ACK_LENGTH(BITMAP_SIZE(s.usWindowSize))

\* An ACK with error byte 0 and no bitmap.
IsFullAck(d) == d.err = 0 /\ d.xLength = ACK_HEADER_LEN

\* Block number, LAST flag and payload length of every frame, in order.
FrameKeys(frames) ==
    [n \in 1..Len(frames) |-> <<frames[n].num, frames[n].last, frames[n].dataLen>>]

\* The blocks of the current window of s, as prxSendWindow emits them, whose
\* bit is set.
MissingBlocks(s, bits) ==
    SelectSeq(prxSendWindow(s, NoFault).frames, LAMBDA f : f.num \in bits)

\* C21: when an ACK with a bitmap of the right length is handled (and
\* xTimerStop did not fail), the frames emitted are exactly the blocks of the
\* current window whose bit is set, in order, and xOffset, usBlockNum and
\* usRetriesLeft are unchanged.
C21_SelectiveRetransmit ==
    [][(AckHandled /\ lastOp'.ret # INTERNAL_ERROR) =>
        \A i \in SendSlots :
            (sendSessions[i].usSessionID = ReceivedDatagram.id
             /\ IsBitmapAck(ReceivedDatagram, sendSessions[i])) =>
                /\ FrameKeys(emitted') =
                       FrameKeys(MissingBlocks(sendSessions[i], ReceivedDatagram.bits))
                /\ sendSessions'[i].xOffset = sendSessions[i].xOffset
                /\ sendSessions'[i].usBlockNum = sendSessions[i].usBlockNum
                /\ sendSessions'[i].usRetriesLeft = sendSessions[i].usRetriesLeft]_vars

\* C22: when an ACK with a non-empty bitmap of the right length has been
\* handled without error, the session's retransmit timer is running.
C22_TimerRearmedAfterSelectiveAck ==
    [][(AckHandled /\ lastOp'.ret = SUCCESS) =>
        \A i \in SendSlots :
            (sendSessions[i].usSessionID = ReceivedDatagram.id
             /\ IsBitmapAck(ReceivedDatagram, sendSessions[i])
             /\ ReceivedDatagram.bits # {}) =>
                TimerState(timers', sendSessions'[i].xRetransmitTimer) = "active"]_vars

\* C23: when an ACK with no bitmap has been handled without error for a
\* window that did not carry the LAST block, usRetriesLeft equals
\* usNumRetries.
C23_RetriesResetOnFullAck ==
    [][(AckHandled /\ IsFullAck(ReceivedDatagram) /\ lastOp'.ret = SUCCESS) =>
        \A i \in SendSlots :
            (sendSessions[i].usSessionID = ReceivedDatagram.id
             /\ ~history[i].sentLast
             /\ sendSessions'[i].xState # eComplete) =>
                sendSessions'[i].usRetriesLeft = sendSessions'[i].usNumRetries]_vars

\* The ACK was refused because xTimerStop failed: the session is Failed and
\* nothing else happened.
AckRefused(i) ==
    /\ lastOp'.ret = INTERNAL_ERROR
    /\ emitted' = <<>>
    /\ sendSessions'[i] = [sendSessions[i] EXCEPT !.xState = eFailed]

\* usBlockNum after a full-window ACK, as the design states it.
NextFirstBlock(s) == (s.usBlockNum + s.usWindowSize) % (2 * s.usWindowSize)

\* C24 (as stated): when an ACK with no bitmap is handled for a session of
\* window size 1 or more, usBlockNum becomes
\* (usBlockNum + usWindowSize) mod (2 * usWindowSize), and xOffset grows by
\* usWindowSize * usBlockSize exactly when the new usBlockNum is 0.
C24_WindowBaseAdvance ==
    [][(AckHandled /\ IsFullAck(ReceivedDatagram)) =>
        \A i \in SendSlots :
            (sendSessions[i].usSessionID = ReceivedDatagram.id
             /\ sendSessions[i].usWindowSize >= 1) =>
                \/ AckRefused(i)
                \/ /\ sendSessions'[i].usBlockNum = NextFirstBlock(sendSessions[i])
                   /\ sendSessions'[i].xOffset =
                          IF NextFirstBlock(sendSessions[i]) = 0
                          THEN sendSessions[i].xOffset
                               + sendSessions[i].usWindowSize * sendSessions[i].usBlockSize
                          ELSE sendSessions[i].xOffset]_vars

\* C24 (amended): the same, but xOffset grows by 2 * usWindowSize * usBlockSize,
\* the bytes of one cycle of block numbers, exactly when the new usBlockNum
\* is 0; unless xTimerStop fails, when the session is Failed and does not
\* move.
C24_WindowBaseAdvanceByCycle ==
    [][(AckHandled /\ IsFullAck(ReceivedDatagram)) =>
        \A i \in SendSlots :
            (sendSessions[i].usSessionID = ReceivedDatagram.id
             /\ sendSessions[i].usWindowSize >= 1) =>
                \/ AckRefused(i)
                \/ /\ sendSessions'[i].usBlockNum = NextFirstBlock(sendSessions[i])
                   /\ sendSessions'[i].xOffset =
                          IF NextFirstBlock(sendSessions[i]) = 0
                          THEN sendSessions[i].xOffset
                               + 2 * sendSessions[i].usWindowSize
                                   * sendSessions[i].usBlockSize
                          ELSE sendSessions[i].xOffset]_vars

\* A full-window ACK has wrapped usBlockNum to 0 and moved xOffset, and the
\* object goes on.
C24_Witness ==
    /\ lastOp.op = "ack" /\ lastOp.full /\ lastOp.ret = SUCCESS
    /\ \E i \in SendSlots :
          /\ sendSessions[i].usBlockNum = 0
          /\ sendSessions[i].xOffset =
                 2 * sendSessions[i].usWindowSize * sendSessions[i].usBlockSize
          /\ sendSessions[i].xOffset > 0
          /\ sendSessions[i].xOffset < sendSessions[i].xObjectLength
          /\ emitted # <<>>

\* C25: when the last operation handled an ACK with no bitmap without error
\* and the network hands over the same bytes again while the window emitted
\* since is outstanding, the copy is dropped: usBlockNum and xOffset do not
\* move, nothing is emitted and the timers are untouched.
C25_DuplicateAckIgnored ==
    [][(AckHandled /\ IsFullAck(ReceivedDatagram)
        /\ lastOp.op = "ack" /\ lastOp.full /\ lastOp.ret = SUCCESS) =>
        \A i \in SendSlots :
            (sendSessions[i].usSessionID = ReceivedDatagram.id
             /\ Outstanding(sendSessions[i], timers)
             /\ ~history[i].sentLast) =>
                /\ sendSessions'[i].usBlockNum = sendSessions[i].usBlockNum
                /\ sendSessions'[i].xOffset = sendSessions[i].xOffset
                /\ emitted' = <<>>
                /\ timers' = timers]_vars

\* A datagram shorter than an ACK header, or with a bitmap of a length that
\* is neither 0 nor the one session s expects.
IsMalformedAck(d, s) ==
    \/ d.xLength < ACK_HEADER_LEN
    \/ /\ d.err = 0
       /\ BITMAP_LEN(d.xLength) \notin {0, BITMAP_SIZE(s.usWindowSize)}

\* C26: handling a malformed ACK emits nothing and leaves the session (phase,
\* window position, retries left) and the timers as they were.
C26_MalformedAckDropped ==
    [][AckHandled =>
        \A i \in SendSlots :
            (sendSessions[i].usSessionID = ReceivedDatagram.id
             /\ IsMalformedAck(ReceivedDatagram, sendSessions[i])) =>
                /\ emitted' = <<>>
                /\ sendSessions'[i] = sendSessions[i]
                /\ timers' = timers]_vars

\* C27: when an operation that transmits a window comes back with a network
\* error (the link took fewer bytes than a block has), every block of the
\* window was still handed to the link, the session is not Failed and its
\* retransmit timer is running.
C27_SendFailureIsTransient ==
    [][(lastOp'.ret = NETWORK_ERROR /\ lastOp'.op \in {"send", "ack", "resume"}) =>
        \A i \in SendSlots :
            /\ lastOp'.full \/ lastOp'.op # "ack" =>
                   Len(emitted') = Len(prxSendWindow(sendSessions'[i], NoFault).frames)
            /\ sendSessions'[i].xState # eFailed
            /\ TimerState(timers', sendSessions'[i].xRetransmitTimer) = "active"]_vars

(***************************************************************************)
(* The sender, a peer that counts the windows it has acknowledged, and a   *)
(* link that may deliver an ACK twice (specification DupSpec).             *)
(***************************************************************************)
\* PeerReceive, counting in link.acked the ACKs the peer has produced.
PeerReceiveCounted ==
    /\ link.attached
    /\ link.toPeer # <<>>
    /\ LET n == PeerWindowLen(link.toPeer, xParameters.windowSize)
           win == SubSeq(link.toPeer, 1, n)
           whole == AllComplete(win) /\ (n = xParameters.windowSize \/ win[n].last)
       IN  link' = [link EXCEPT
                       !.toPeer = SubSeq(@, n + 1, Len(@)),
                       !.toDevice = IF whole /\ ~link.gotLast
                                    THEN Append(@, PeerAck(win[1].id)) ELSE @,
                       !.gotLast = @ \/ (whole /\ win[n].last),
                       !.acked = IF whole /\ ~link.gotLast THEN @ + 1 ELSE @]
    /\ UNCHANGED <<p1vars, hvars>>

\* The link duplicates the ACK it carries.
LinkDuplicates ==
    /\ link.attached
    /\ Len(link.toDevice) = 1
    /\ link' = [link EXCEPT !.toDevice = @ \o @]
    /\ UNCHANGED <<p1vars, hvars>>

DupInit ==
    /\ AwsIotLargeObjectTransfer_Init
    /\ NoHandle
    /\ link = [attached |-> TRUE, toPeer |-> <<>>, toDevice |-> <<>>,
               gotLast |-> FALSE, acked |-> 0]

DupNext ==
    \/ \E xObjectLength \in AckObjectLengths : AckSend(xObjectLength)
    \/ RetransmitTimerExpiry
    \/ PeerReceiveCounted
    \/ LinkDuplicates
    \/ AckDelivery

DupSpec == DupInit /\ [][DupNext]_vars

\* The window a block of number usBlockNum of session s belongs to, counted
\* from 0: xOffset is the base of the cycle of block numbers.
WindowIndex(s, usBlockNum) ==
    (s.xOffset + usBlockNum * s.usBlockSize) \div (s.usWindowSize * s.usBlockSize)

\* C28: every data block the sender has just handed to the link belongs to a
\* window no later than the number of windows the peer has acknowledged: a
\* block of window k + 1 is emitted only after the peer has produced the ACK
\* for window k.
C28_WindowOrdering ==
    \A i \in SendSlots :
        \A n \in 1..Len(emitted) :
            (emitted[n].type = "block"
             /\ emitted[n].id = sendSessions[i].usSessionID
             /\ sendSessions[i].xRetransmitTimer # NULL) =>
                WindowIndex(sendSessions[i], emitted[n].num) <= link.acked

\* C29: for every send session of window size 1 or more, usBlockNum is 0 or
\* usWindowSize, and the data blocks just handed to the link for it carry
\* numbers below 2 * usWindowSize in strictly ascending order.
C29_BlockNumbering ==
    \A i \in SendSlots :
        (sendSessions[i].xRetransmitTimer # NULL /\ sendSessions[i].usWindowSize >= 1) =>
            /\ sendSessions[i].usBlockNum \in {0, sendSessions[i].usWindowSize}
            /\ \A n \in 1..Len(emitted) :
                  emitted[n].id = sendSessions[i].usSessionID =>
                      /\ emitted[n].type = "block"
                      /\ emitted[n].num \in 0..(2 * sendSessions[i].usWindowSize - 1)
                      /\ n > 1 => emitted[n - 1].num < emitted[n].num

\* An ACK has moved a session to the second half of the block numbers and
\* its window was emitted.
C29_Witness ==
    /\ lastOp.op = "ack" /\ lastOp.full /\ lastOp.ret = SUCCESS
    /\ emitted # <<>>
    /\ \E i \in SendSlots :
          /\ sendSessions[i].usBlockNum = sendSessions[i].usWindowSize
          /\ sendSessions[i].usWindowSize >= 1
          /\ emitted[1].num = sendSessions[i].usBlockNum
          /\ ~emitted[1].last

\* Frame f of session s carries the final byte of the object.
CarriesFinalByte(s, f) ==
    LET xOffset == s.xOffset + f.num * s.usBlockSize
    IN  f.dataLen >= 1 /\ xOffset < s.xObjectLength
        /\ xOffset + f.dataLen = s.xObjectLength

\* C30: among the data blocks just handed to the link for a send session,
\* a block is flagged LAST exactly when it carries the final byte of the
\* object, and no block follows a block flagged LAST.
C30_LastFlag ==
    \A i \in SendSlots :
        (sendSessions[i].xRetransmitTimer # NULL /\ sendSessions[i].usWindowSize >= 1) =>
            \A n \in 1..Len(emitted) :
                (emitted[n].type = "block"
                 /\ emitted[n].id = sendSessions[i].usSessionID) =>
                    /\ emitted[n].last <=> CarriesFinalByte(sendSessions[i], emitted[n])
                    /\ emitted[n].last => n = Len(emitted)

(***************************************************************************)
(* Claims about the bytes a data block carries and about its flags.        *)
(***************************************************************************)
\* Byte offset in the object of block usBlockNum of session s.
BlockOffset(s, usBlockNum) ==
    (s.xOffset + usBlockNum * s.usBlockSize) % SIZE_MODULUS

\* C31: every data block the sender emits (first window, next window after an
\* ACK, timer retransmit, selective retransmit, resume) starts below the
\* object length, carries between 1 and block-size bytes, and ends at or
\* below the object length.
C31_PayloadBounds ==
    \A i \in SendSlots : \A n \in BlockFrames(emitted) :
        emitted[n].id = sendSessions[i].usSessionID =>
            LET s == sendSessions[i]
                xOffset == BlockOffset(s, emitted[n].num)
            IN  /\ xOffset < s.xObjectLength
                /\ emitted[n].dataLen >= 1
                /\ emitted[n].dataLen <= s.usBlockSize
                /\ xOffset + emitted[n].dataLen <= s.xObjectLength

\* C32: the RESUME bit is set on the first data block emitted by a
\* session-level resume and on no other block: a block emitted by Send, by
\* an ACK, by a timer expiry or later in the resumed window never carries it.
C32_ResumeFlag ==
    \A n \in BlockFrames(emitted) :
        emitted[n].resume <=> (lastOp.op = "resume" /\ n = 1)

(***************************************************************************)
(* Claims about what the handlers leave alone.                             *)
(***************************************************************************)
\* A step in which the receive callback handles the datagram in the receive
\* buffer, or a retransmit timer expires.
InboundOrExpiry == link' = link /\ lastOp'.op \in {"ack", "block", "timer"}

\* Send slot i is Complete or Failed, or has held no session since Init.
TerminalOrUnused(i) ==
    sendSessions[i].xState \in {eComplete, eFailed} \/ sendSessions[i] = ZeroSend

\* C33: a datagram bearing the id of a send session that is Complete or
\* Failed (or of a slot that never held a session) and a timer expiry leave
\* the session's phase and window position as they were, arm no timer and
\* emit nothing.
C33_TerminalIsAbsorbing ==
    [][\A i \in SendSlots :
          (InboundOrExpiry /\ TerminalOrUnused(i)) =>
              /\ sendSessions'[i].xState = sendSessions[i].xState
              /\ sendSessions'[i].usBlockNum = sendSessions[i].usBlockNum
              /\ sendSessions'[i].xOffset = sendSessions[i].xOffset
              /\ ActiveTimers(timers') \subseteq ActiveTimers(timers)
              /\ emitted' = <<>>]_vars

\* Datagram d carries the id of no send session and of no receive session.
\* (part_001 has no START message: no datagram is one.)
Unroutable(d) ==
    /\ \A i \in SendSlots : sendSessions[i].usSessionID # d.id
    /\ \A j \in RecvSlots : recvSessions[j].usSessionID # d.id

\* C34: when the receive callback handles a datagram whose session id matches
\* no existing session (and which is no START message), no receive session
\* is created, no session state changes, no timer is taken and nothing is
\* sent in reply.
C34_UnroutableDropped ==
    [][\A d \in RecvDatagrams(Params[1], Params[2]) :
          (Unroutable(d) /\ prvNetworkReceiveCallback(d, NoFault)) =>
              /\ recvSessions' = recvSessions
              /\ sendSessions' = sendSessions
              /\ timers' = timers
              /\ emitted' = <<>>]_vars

(***************************************************************************)
(* AwsIotLargeObjectTransfer_Destroy and the timers it leaves behind       *)
(* (specification LateSpec).  Destroy frees both session arrays and stops  *)
(* or deletes no timer, so the timer id of every timer, the pointer to its *)
(* session, dangles afterwards (owner kind "freed").  The freed array      *)
(* keeps its bytes until the allocator hands the memory out again.         *)
(***************************************************************************)
Destroyed == lastOp.op = "destroy" \/ \E t \in TimerIds : timers[t].owner.kind = "freed"

AwsIotLargeObjectTransfer_Destroy ==
    /\ ~halted
    /\ ~Destroyed
    /\ timers' = [t \in TimerIds |->
                     IF timers[t].owner.kind = "none" THEN timers[t]
                     ELSE [timers[t] EXCEPT !.owner.kind = "freed"]]
    /\ emitted' = <<>>
    /\ lastOp' = [NoOp EXCEPT !.op = "destroy"]
    /\ UNCHANGED <<xParameters, sendSessions, recvSessions, delivered, halted,
                   history, rx, hvars, link>>

\* A retransmit timer started before Destroy expires after it:
\* prvRetransmitWindow reads and writes the freed session (use after free).
LateTimerExpiry(xTimer) ==
    /\ ~halted
    /\ timers[xTimer].st = "active"
    /\ timers[xTimer].owner.kind = "freed"
    /\ LET slot == timers[xTimer].owner.slot
           tm0 == TimerSet(timers, xTimer, "dormant", timers[xTimer].owner)
           r == prvRetransmitWindow(sendSessions[slot], tm0, xTimer, NoFault)
       IN  /\ sendSessions' = [sendSessions EXCEPT ![slot] = r.session]
           /\ timers' = r.timers
           /\ emitted' = r.frames
           /\ lastOp' = [NoOp EXCEPT !.op = "timer",
                                     !.ret = IF r.session.xState = eFailed
                                             THEN INTERNAL_ERROR ELSE SUCCESS]
           /\ halted' \in UBOutcomes(TRUE)
    /\ UNCHANGED <<xParameters, recvSessions, delivered, history, rx, hvars>>
    /\ link' = Transmit(link, emitted')

LateNext ==
    \/ RetransmitTimerExpiry
    \/ (~Destroyed /\ AnyDatagram)
    \/ AwsIotLargeObjectTransfer_Destroy
    \/ \E xTimer \in TimerIds : LateTimerExpiry(xTimer)

LateSpec == RetransmitInit /\ [][LateNext]_vars

\* C35: a timer expiry delivered after its session was destroyed is ignored:
\* the task does not fault on it, the memory of the session is not written,
\* no datagram is emitted and no timer is running afterwards.
C35_LateTimerIgnored ==
    [][\A xTimer \in TimerIds :
          (/\ timers[xTimer].st = "active"
           /\ timers[xTimer].owner.kind = "freed"
           /\ lastOp'.op = "timer") =>
              /\ ~halted'
              /\ sendSessions' = sendSessions
              /\ emitted' = <<>>
              /\ ActiveTimers(timers') = {}]_vars

(***************************************************************************)
(* Tasks (specification RaceSpec).  The source takes no lock, enters no    *)
(* critical section and queues no event: the receive callback runs on the  *)
(* task of the network stack, timer callbacks on the timer service task    *)
(* and the API on the application's task.  Here the application's task is  *)
(* inside pxNetwork->send, called by prxSendWindow for Resume, while the   *)
(* network task delivers a datagram.  link.sender is the call that is      *)
(* inside send: the slot it works on and the error code it has so far.     *)
(***************************************************************************)
NoSender == [busy |-> FALSE, slot |-> 0, err |-> SUCCESS]

\* AwsIotLargeObjectTransfer_Resume up to the return of prxSendWindow.
ResumeSends(usSessionID) ==
    /\ ~halted
    /\ lastOp.op # "init"
    /\ ~link.sender.busy
    /\ LET hit == {i \in SendSlots :
                      /\ sendSessions[i].usSessionID = usSessionID
                      /\ sendSessions[i].xState # eDataSend
                      /\ sendSessions[i].xOffset < sendSessions[i].xObjectLength}
           i == MinOf(hit)
           w == prxSendWindow(sendSessions[i], NoFault)
       IN  /\ hit # {}
           /\ emitted' = w.frames
           /\ halted' \in UBOutcomes(w.ub)
           /\ link' = [link EXCEPT !.sender = [busy |-> TRUE, slot |-> i, err |-> w.err]]
    /\ UNCHANGED <<xParameters, sendSessions, recvSessions, timers, delivered,
                   lastOp, history, rx, hvars>>

\* ... and from there to its return: xTimerStart on the session's timer.
ResumeReturns ==
    /\ ~halted
    /\ link.sender.busy
    /\ LET s == sendSessions[link.sender.slot]
           startUB == link.sender.err = SUCCESS /\ s.xRetransmitTimer = NULL
       IN  /\ timers' = IF link.sender.err = SUCCESS /\ s.xRetransmitTimer # NULL
                         THEN TimerSet(timers, s.xRetransmitTimer, "active",
                                       timers[s.xRetransmitTimer].owner)
                         ELSE timers
           /\ halted' \in UBOutcomes(startUB)
    /\ lastOp' = [NoOp EXCEPT !.op = "resume", !.ret = link.sender.err]
    /\ link' = [link EXCEPT !.sender = NoSender]
    /\ UNCHANGED <<xParameters, sendSessions, recvSessions, emitted, delivered,
                   history, rx, hvars>>

RaceInit ==
    /\ AwsIotLargeObjectTransfer_Init
    /\ NoHandle
    /\ link = [attached |-> FALSE, toPeer |-> <<>>, toDevice |-> <<>>,
               gotLast |-> FALSE, sender |-> NoSender]

RaceNext ==
    \/ \E xObjectLength \in ObjectLengths : SendOnce(xObjectLength)
    \/ AnyDatagram
    \/ RetransmitTimerExpiry
    \/ ResumeSends(0)
    \/ ResumeReturns

RaceSpec == RaceInit /\ [][RaceNext]_vars

\* C36: the handlers of a session run one after the other, so that no
\* handler interrupted by an ACK arms the retransmit timer of the session the
\* ACK has completed: the timer of a Complete session is not running.
C36_HandlersSerialised ==
    \A i \in SendSlots :
        sendSessions[i].xState = eComplete =>
            TimerState(timers, sendSessions[i].xRetransmitTimer) # "active"

(***************************************************************************)
(* The bytes of a data frame, as prxSendBlock writes them into the buffer  *)
(* of f.length bytes: _SESSION_ID at 0, _BLOCK_NUMBER at 2, _FLAGS at      *)
(* FLAGS_OFFSET, then memcpy of the payload to _BLOCK_DATA.  Later writes  *)
(* win; a byte nothing wrote is "unset".                                   *)
(***************************************************************************)
FLAGS_OFFSET == 4
BLOCK_DATA_OFFSET == 4

BlockBytes(f) ==
    [n \in 0..(f.length - 1) |->
        IF n >= BLOCK_DATA_OFFSET /\ n < BLOCK_DATA_OFFSET + f.dataLen
        THEN <<"data", f.payload, n - BLOCK_DATA_OFFSET>>
        ELSE IF n = FLAGS_OFFSET THEN <<"flags", f.reserved, f.resume, f.last>>
        ELSE IF n \in 2..3 THEN <<"num", f.num, n - 2>>
        ELSE IF n \in 0..1 THEN <<"id", f.id, n>>
        ELSE <<"unset">>]

\* C37: every data frame handed to the link is 5 + payload length bytes
\* long, holds the session id in bytes 0..1, the block number in bytes 2..3,
\* the flags (reserved pattern, RESUME, LAST) in byte 4 and the bytes of the
\* object in order from byte 5 on.
C37_FrameLayout ==
    \A n \in BlockFrames(emitted) :
        LET f == emitted[n]
            b == BlockBytes(f)
        IN  /\ f.length = BLOCK_HEADER_LEN + f.dataLen
            /\ \A k \in 0..1 : b[k] = <<"id", f.id, k>> /\ b[2 + k] = <<"num", f.num, k>>
            /\ b[4] = <<"flags", TRUE, f.resume, f.last>>
            /\ \A k \in 0..(f.dataLen - 1) : b[BLOCK_HEADER_LEN + k] = <<"data", "object", k>>

(***************************************************************************)
(* Claims about the control messages of the handle based revision (lib).   *)
(***************************************************************************)
\* AwsIotLargeObjectTransfer_Send( xSession, pucObject, xSize, pxSendParams,
\* xCallback ): the function stores xSize nowhere, and the START message
\* takes its size from pxSendSession->xSize, which nothing has written.
SendCall(xSize, pxSendParams) ==
    \E wild \in WildSizes, fault \in HandleFaults :
        AwsIotLargeObjectTransfer_Send_lib(pxSendParams, wild, fault)

\* C38: the START message of a successful Send carries the type START, the
\* id of the new send session, the object size the caller passed, and block
\* size, window size and retransmission count of the parameters passed.
C38_StartContent ==
    [][\A xSize \in ObjectLengths, pxSendParams \in SendParams :
          (SendCall(xSize, pxSendParams) /\ lastOp'.ret = SUCCESS) =>
              /\ StartFrames(emitted') # {}
              /\ \A n \in StartFrames(emitted') :
                    LET msg == emitted'[n].msg
                    IN  /\ msg.type = "start"
                        /\ \E o \in ObjIds : heap'[o].used /\ ~heap[o].used
                                             /\ heap'[o].usUUID = msg.id
                        /\ msg.size = xSize
                        /\ msg.blockSize = pxSendParams.blockSize
                        /\ msg.windowSize = pxSendParams.windowSize
                        /\ msg.numRetransmissions = pxSendParams.numRetransmissions]_vars

(***************************************************************************)
(* Inbound ACK control messages of lib (specification AckControlSpec).     *)
(* A control message is a key-value map; the decoder's iterator walks its  *)
(* elements, of which the first is the first key.  An element is a text    *)
(* string ("m", "i", "e": message type, session id, error code) or, in a   *)
(* map some other encoder wrote, an integer ("int").  link.xIter is the    *)
(* iterator of the prxProcessACK call in progress, 0 when there is none.   *)
(***************************************************************************)
MaxElements == 2
MaxCallbacks == 2

ERROR_CODE_KEY == "e"
Elements == {"m", "i", ERROR_CODE_KEY, "int"}
IsTextString(e) == e \in {"m", "i", ERROR_CODE_KEY}

RECURSIVE SeqsUpTo(_, _)
SeqsUpTo(S, n) ==
    IF n = 0 THEN {<<>>}
    ELSE LET shorter == SeqsUpTo(S, n - 1)
         IN  shorter \cup {Append(q, e) : q \in {x \in shorter : Len(x) = n - 1}, e \in S}

\* The link has a control message of type ACK for the device.
AckControlArrives(elems) ==
    /\ ~halted
    /\ link.toDevice = <<>>
    /\ Len(delivered) < MaxCallbacks
    /\ link' = [link EXCEPT !.toDevice = <<[kind |-> "control", elems |-> elems]>>]
    /\ UNCHANGED <<p1vars, hvars>>

\* prxNetworkReceiveCallback on a message of type ACK: prxProcessACK is
\* entered (decoder init, stepIn) when the handle's pxSendSession is not NULL.
prxNetworkReceiveCallback ==
    /\ ~halted
    /\ link.toDevice # <<>>
    /\ link.xIter = 0
    /\ IF xSession.pxSendSession # NULL
       THEN /\ link' = [link EXCEPT !.xIter = 1]
            /\ UNCHANGED lastOp
       ELSE /\ link' = [link EXCEPT !.toDevice = <<>>]
            /\ lastOp' = [NoOp EXCEPT !.op = "control"]
    /\ UNCHANGED <<xParameters, sendSessions, recvSessions, timers, emitted,
                   delivered, halted, history, rx, hvars>>

\* prxProcessACK: one evaluation of the while condition and, when it holds,
\* of the loop body.  Nothing in the body moves xIter.  The send callback is
\* called through the handle's pxSendSession, which nothing has assigned.
prxProcessACK ==
    /\ ~halted
    /\ link.xIter # 0
    /\ LET elems == Head(link.toDevice).elems
           isEndOfContainer == link.xIter > Len(elems)
           xValue == elems[link.xIter]
           returns == /\ link' = [link EXCEPT !.toDevice = <<>>, !.xIter = 0]
                      /\ lastOp' = [NoOp EXCEPT !.op = "control"]
       IN  IF isEndOfContainer
           THEN returns /\ UNCHANGED <<delivered, halted>>
           ELSE IF ~IsTextString(xValue)
           THEN returns /\ UNCHANGED <<delivered, halted>>
           ELSE IF xValue = ERROR_CODE_KEY
           THEN /\ returns
                /\ delivered' = Append(delivered, [event |-> eComplete,
                                                   error |-> INTERNAL_ERROR])
                /\ halted' \in UBOutcomes(TRUE)
           ELSE UNCHANGED <<link, lastOp, delivered, halted>>
    /\ UNCHANGED <<xParameters, sendSessions, recvSessions, timers, emitted,
                   history, rx, hvars>>

AckControlInit ==
    /\ xParameters = [windowSize |-> 1, usMTU |-> MaxMTU, numRetransmissions |-> 0]
    /\ sendSessions = [i \in SendSlots |-> ZeroSend]
    /\ recvSessions = [i \in RecvSlots |-> ZeroRecv]
    /\ timers = [t \in HandleTimerIds |-> [st |-> "free", owner |-> NoOwner]]
    /\ emitted = <<>>
    /\ delivered = <<>>
    /\ lastOp = NoOp
    /\ halted = FALSE
    /\ history = [i \in SendSlots |-> [sentLast |-> FALSE, copies |-> 0]]
    /\ rx = [i \in RecvSlots |-> EmptyRx]
    /\ link = [attached |-> FALSE, toPeer |-> <<>>, toDevice |-> <<>>,
               gotLast |-> FALSE, xIter |-> 0]
    /\ AwsIotLargeObjectTransfer_CreateNewSession
    /\ xSession.revision = "lib"

AckControlNext ==
    \/ \E elems \in SeqsUpTo(Elements, MaxElements) : AckControlArrives(elems)
    \/ prxNetworkReceiveCallback
    \/ prxProcessACK

\* The network task and the handler it runs keep running.
AckControlSpec ==
    /\ AckControlInit
    /\ [][AckControlNext]_vars
    /\ WF_vars(prxNetworkReceiveCallback)
    /\ WF_vars(prxProcessACK)

\* C39: handling an ACK control message terminates: every call of
\* prxProcessACK returns, whatever the first key of the map is.
C39_AckControlTerminates == (link.xIter # 0) ~> (link.xIter = 0)

(***************************************************************************)
(* The receive buffers of AwsIotLargeObjectTransfer_Init (specification    *)
(* BufferSpec): the context's window size and MTU are drawn from the       *)
(* permitted ranges, and Init computes the buffer size in a uint16_t.      *)
(***************************************************************************)
\* Window sizes are the powers of two up to 2^MaxWindowShift = 16384.
MaxWindowShift == 14
MaxBufferMTU == 512

RECURSIVE PowerOfTwo(_)
PowerOfTwo(k) == IF k = 0 THEN 1 ELSE 2 * PowerOfTwo(k - 1)

BufferWindowSizes == {PowerOfTwo(k) : k \in 0..MaxWindowShift}
BufferMTUs == {MaxMTU, MaxBufferMTU \div 2, MaxBufferMTU}

\* usBufferSize = ( windowSize * usMTU ), assigned to a uint16_t.
usBufferSize(windowSize, usMTU) == (windowSize * usMTU) % UINT16_MODULUS

\* A zeroed receive session together with its buffer length.
ZeroRecvBuffer ==
    [f \in DOMAIN ZeroRecv \cup {"xRecvBufLength"} |->
        IF f = "xRecvBufLength" THEN 0 ELSE ZeroRecv[f]]

\* The loop of Init over the receive sessions; failed: AwsIotNetworkMalloc
\* returns NULL for the first buffer.
AwsIotLargeObjectTransfer_Init_Buffers(failed) ==
    /\ lastOp.op = "init"
    /\ recvSessions' =
          [j \in RecvSlots |->
              IF failed THEN recvSessions[j]
              ELSE [recvSessions[j] EXCEPT !.xRecvBufLength =
                       usBufferSize(xParameters.windowSize, xParameters.usMTU)]]
    /\ lastOp' = [NoOp EXCEPT !.op = "Init",
                              !.ret = IF failed THEN NO_MEMORY ELSE SUCCESS]
    /\ UNCHANGED <<xParameters, sendSessions, timers, emitted, delivered, halted,
                   history, rx, hvars, link>>

BufferInit ==
    /\ xParameters \in [windowSize : BufferWindowSizes, usMTU : BufferMTUs,
                        numRetransmissions : {0}]
    /\ sendSessions = [i \in SendSlots |-> ZeroSend]
    /\ recvSessions = [j \in RecvSlots |-> ZeroRecvBuffer]
    /\ timers = [t \in TimerIds |-> [st |-> "free", owner |-> NoOwner]]
    /\ emitted = <<>>
    /\ delivered = <<>>
    /\ lastOp = NoOp
    /\ halted = FALSE
    /\ history = [i \in SendSlots |-> [sentLast |-> FALSE, copies |-> 0]]
    /\ rx = [j \in RecvSlots |-> EmptyRx]
    /\ NoHandle
    /\ link = NoLink

BufferNext == \E failed \in BOOLEAN : AwsIotLargeObjectTransfer_Init_Buffers(failed)

BufferSpec == BufferInit /\ [][BufferNext]_vars

\* C40: after a successful Init the buffer length recorded for every receive
\* session is at least windowSize * block size (usMTU - 5) bytes.
C40_ReceiveBufferHoldsWindow ==
    (lastOp.op = "Init" /\ lastOp.ret = SUCCESS) =>
        \A j \in RecvSlots :
            recvSessions[j].xRecvBufLength >=
                xParameters.windowSize * MAX_BLOCK_DATA_LEN(xParameters.usMTU)

====
